---- MODULE Spec2Model ----
(***************************************************************************)
(* A model of rustune: the STRFILE index codec (src/src/datfile.rs), the   *)
(* record segmenter and index builder (src/src/strfile_builder.rs), the    *)
(* corpus reader (FortuneFile, src/src/datfile.rs) and the strfile tool    *)
(* (src/src/bin/strfile.rs).                                               *)
(*                                                                         *)
(* Bytes are naturals 0..255 and buffers are sequences of bytes. Rust      *)
(* indexes from 0: At(b, i) is b[i] and Slice(b, lo, hi) is b[lo..hi].     *)
(* A u32 is a natural; the byte sets below keep every u32 under 2^31, the  *)
(* largest integer the model checker computes with, and the usize          *)
(* arithmetic of the decoder is done on two 16-bit limbs so that its       *)
(* overflow checks are exact for a 32-bit and a 64-bit target.             *)
(***************************************************************************)
EXTENDS Integers, Sequences, FiniteSets, TLC

\* ------------------------------------------------------------------------
\* Bounds of the model
\* ------------------------------------------------------------------------

\* Longest offset table of a drawn index / drawn raw buffer.
MaxOffsets == 2
\* Longest drawn corpus, in bytes.
MaxLen == 4

\* ------------------------------------------------------------------------
\* Program constants
\* ------------------------------------------------------------------------

STRFILE_VERSION == 2
STR_RANDOM == 1
STR_ORDERED == 2
STR_ROTATED == 4
HEADER_BYTES == 24

NL == 10
CR == 13
PERCENT == 37

\* ------------------------------------------------------------------------
\* Buffers
\* ------------------------------------------------------------------------

At(b, i) == b[i + 1]

Slice(b, lo, hi) == SubSeq(b, lo + 1, hi)

\* Whether b[lo..hi] is inside b; Rust panics on a slice that is not.
SliceOk(b, lo, hi) == lo <= hi /\ hi <= Len(b)

RECURSIVE Flatten(_)
Flatten(ss) == IF ss = <<>> THEN <<>> ELSE Head(ss) \o Flatten(Tail(ss))

\* ------------------------------------------------------------------------
\* usize arithmetic on limbs: <<hi, lo>> stands for hi * 65536 + lo
\* ------------------------------------------------------------------------

LIMB == 256 * 256

Wide(n) == <<n \div LIMB, n % LIMB>>

WideMul(w, k) ==
    LET lo == w[2] * k
    IN  <<w[1] * k + (lo \div LIMB), lo % LIMB>>

WideAdd(w, k) ==
    LET lo == w[2] + k
    IN  <<w[1] + (lo \div LIMB), lo % LIMB>>

WideLess(a, b) == a[1] < b[1] \/ (a[1] = b[1] /\ a[2] < b[2])

WideToInt(w) == w[1] * LIMB + w[2]

\* Whether a value fits a usize of the given width.
FitsUsize(w, bits) == bits = 64 \/ w[1] < LIMB

NoneW == <<-1, -1>>

checked_mul(w, k, bits) ==
    LET r == WideMul(w, k) IN IF FitsUsize(r, bits) THEN r ELSE NoneW

checked_add(w, k, bits) ==
    LET r == WideAdd(w, k) IN IF FitsUsize(r, bits) THEN r ELSE NoneW

\* ------------------------------------------------------------------------
\* The index codec (DatFile)
\* ------------------------------------------------------------------------

\* The four bytes read with the two middle ones exchanged.
be_u32_swapped(bytes) ==
    ((At(bytes, 0) * 256 + At(bytes, 2)) * 256 + At(bytes, 1)) * 256 + At(bytes, 3)

be_u32(bytes) ==
    ((At(bytes, 0) * 256 + At(bytes, 1)) * 256 + At(bytes, 2)) * 256 + At(bytes, 3)

to_be_bytes(v) ==
    <<v \div 16777216, (v \div 65536) % 256, (v \div 256) % 256, v % 256>>

DatHeader(version, numstr, longlen, shortlen, flags, delim) ==
    [version |-> version, numstr |-> numstr, longlen |-> longlen,
     shortlen |-> shortlen, flags |-> flags, delim |-> delim]

DatFile(header, offsets) == [header |-> header, offsets |-> offsets]

NoDat == DatFile(DatHeader(0, 0, 0, 0, 0, 0), <<>>)

\* Result<DatFile>; "panic" is an index or slice out of range.
DatOk(dat) == [tag |-> "ok", err |-> "", dat |-> dat]
DatErr(msg) == [tag |-> "err", err |-> msg, dat |-> NoDat]
DatPanic == [tag |-> "panic", err |-> "", dat |-> NoDat]

\* Result<Vec<u8>>
BytesOk(bytes) == [tag |-> "ok", err |-> "", bytes |-> bytes]
BytesErr(msg) == [tag |-> "err", err |-> msg, bytes |-> <<>>]

\* The body of read_from_bytes after its first length check: every slice it
\* takes is checked as Rust checks it.
read_header_and_offsets(bytes, bits) ==
    IF ~SliceOk(bytes, 0, 4) \/ ~SliceOk(bytes, 4, 8) \/ ~SliceOk(bytes, 8, 12)
       \/ ~SliceOk(bytes, 12, 16) \/ ~SliceOk(bytes, 16, 20) \/ ~(20 < Len(bytes))
    THEN DatPanic
    ELSE
    LET version == be_u32(Slice(bytes, 0, 4))
        numstr == be_u32(Slice(bytes, 4, 8))
        longlen == be_u32(Slice(bytes, 8, 12))
        shortlen == be_u32(Slice(bytes, 12, 16))
        flags == be_u32(Slice(bytes, 16, 20))
        delim == At(bytes, 20)
        expected_offsets_bytes == checked_mul(Wide(numstr), 4, bits)
        expected_total ==
            IF expected_offsets_bytes = NoneW THEN NoneW
            ELSE checked_add(expected_offsets_bytes, HEADER_BYTES, bits)
    IN  IF expected_offsets_bytes = NoneW THEN DatErr("offset table size overflow")
        ELSE IF expected_total = NoneW THEN DatErr("dat size overflow")
        ELSE IF WideLess(Wide(Len(bytes)), expected_total)
             THEN DatErr("dat file missing offset entries")
        ELSE LET total == WideToInt(expected_total)
                 nchunks == (total - HEADER_BYTES) \div 4
                 offsets == [k \in 1..nchunks |->
                                be_u32(Slice(bytes, HEADER_BYTES + 4 * (k - 1),
                                             HEADER_BYTES + 4 * k))]
             IN  IF ~SliceOk(bytes, HEADER_BYTES, total) THEN DatPanic
                 ELSE DatOk(DatFile(DatHeader(version, numstr, longlen, shortlen,
                                              flags, delim), offsets))

\* read_from_bytes without its first length check.
read_from_bytes_unchecked(bytes, bits) == read_header_and_offsets(bytes, bits)

read_from_bytes(bytes, bits) ==
    IF Len(bytes) < HEADER_BYTES THEN DatErr("dat file shorter than header")
    ELSE read_header_and_offsets(bytes, bits)

\* offsets.len() > u32::MAX, for a length the model checker can hold.
ExceedsU32(n) == (n \div LIMB) >= LIMB

\* to_bytes with the delimiter written after the padding.
to_bytes_delim_last(dat) ==
    IF dat.header.numstr # Len(dat.offsets)
    THEN BytesErr("header numstr does not match offset count")
    ELSE BytesOk(to_be_bytes(dat.header.version)
                 \o to_be_bytes(dat.header.numstr)
                 \o to_be_bytes(dat.header.longlen)
                 \o to_be_bytes(dat.header.shortlen)
                 \o to_be_bytes(dat.header.flags)
                 \o <<0, 0, 0>>
                 \o <<dat.header.delim>>
                 \o Flatten([k \in 1..Len(dat.offsets) |-> to_be_bytes(dat.offsets[k])]))

to_bytes(dat) ==
    IF ExceedsU32(Len(dat.offsets))
    THEN BytesErr("too many offsets for STRFILE u32")
    ELSE IF dat.header.numstr # Len(dat.offsets)
    THEN BytesErr("header numstr does not match offset count")
    ELSE BytesOk(to_be_bytes(dat.header.version)
                 \o to_be_bytes(dat.header.numstr)
                 \o to_be_bytes(dat.header.longlen)
                 \o to_be_bytes(dat.header.shortlen)
                 \o to_be_bytes(dat.header.flags)
                 \o <<dat.header.delim>>
                 \o <<0, 0, 0>>
                 \o Flatten([k \in 1..Len(dat.offsets) |-> to_be_bytes(dat.offsets[k])]))

\* std::fs::write(path, contents): File::create, then write_all. The outcome of
\* the I/O is an input: a failed create leaves the file as it was, a failed
\* write_all leaves a file cut short.
IoOutcomes == {"ok", "create_failed", "write_failed"}

NoFile == [exists |-> FALSE, bytes |-> <<>>]

fs_write(file, contents, io) ==
    CASE io = "ok" -> [exists |-> TRUE, bytes |-> contents]
      [] io = "create_failed" -> file
      [] OTHER -> [exists |-> TRUE, bytes |-> Slice(contents, 0, Len(contents) \div 2)]

\* write_to_path creating the destination before it encodes.
write_to_path_create_first(dat, file, io) ==
    IF to_bytes(dat).tag = "err"
    THEN [tag |-> "err", err |-> to_bytes(dat).err, calls |-> <<>>,
          file |-> [exists |-> TRUE, bytes |-> <<>>]]
    ELSE [tag |-> IF io = "ok" THEN "ok" ELSE "err",
          err |-> IF io = "ok" THEN "" ELSE "failed writing",
          calls |-> <<to_bytes(dat).bytes>>,
          file |-> fs_write(file, to_bytes(dat).bytes, io)]

\* write_to_path: the result, the buffers handed to fs::write (in order) and the
\* destination file afterwards.
write_to_path(dat, file, io) ==
    LET encoded == to_bytes(dat)
    IN  IF encoded.tag = "err"
        THEN [tag |-> "err", err |-> encoded.err, calls |-> <<>>, file |-> file]
        ELSE [tag |-> IF io = "ok" THEN "ok" ELSE "err",
              err |-> IF io = "ok" THEN "" ELSE "failed writing",
              calls |-> <<encoded.bytes>>,
              file |-> fs_write(file, encoded.bytes, io)]

\* ------------------------------------------------------------------------
\* The random source (FortuneRng)
\* ------------------------------------------------------------------------

\* The environment FortuneRng::from_env reads. hard is the state of
\* FORTUNE_MOD_RAND_HARD_CODED_VALS: "unset", "invalid" (a token that is no
\* u64, or no token at all) or "list" with the parsed values; srand is whether
\* FORTUNE_MOD_USE_SRAND is truthy.
Env(hard, values, srand) == [hard |-> hard, values |-> values, srand |-> srand]

\* A FortuneRng: its mode, the values it yields and how many it has yielded.
\* A HardCoded source cycles through values; for a Seeded or Thread source
\* values is the stream the generator produces, an input of the run.
Rng(mode, values, index) == [mode |-> mode, values |-> values, index |-> index]

NoRng == Rng("none", <<>>, 0)

\* from_env that looks at FORTUNE_MOD_USE_SRAND before the hard-coded values.
from_env_srand(env, stream) ==
    IF env.hard = "invalid" THEN [tag |-> "err", rng |-> NoRng]
    ELSE IF env.srand THEN [tag |-> "ok", rng |-> Rng("Seeded", stream, 0)]
    ELSE IF env.hard = "list" /\ env.values # <<>>
    THEN [tag |-> "ok", rng |-> Rng("HardCoded", env.values, 0)]
    ELSE [tag |-> "ok", rng |-> Rng("Thread", stream, 0)]

\* Result<FortuneRng>; stream is what a Seeded or Thread generator would yield.
from_env(env, stream) ==
    IF env.hard = "invalid" THEN [tag |-> "err", rng |-> NoRng]
    ELSE IF env.hard = "list" /\ env.values # <<>>
    THEN [tag |-> "ok", rng |-> Rng("HardCoded", env.values, 0)]
    ELSE IF env.srand THEN [tag |-> "ok", rng |-> Rng("Seeded", stream, 0)]
    ELSE [tag |-> "ok", rng |-> Rng("Thread", stream, 0)]

\* A u64 is four 16-bit limbs, the most significant first.
U64(n) == <<0, 0, n \div LIMB, n % LIMB>>

\* Characters of the text of FORTUNE_MOD_RAND_HARD_CODED_VALS.
COMMA == 44
SEMICOLON == 59
PLUS == 43
ZERO == 48
NINE == 57

\* The split predicate of parse_hardcoded_values: ',', ';' or
\* char::is_ascii_whitespace (space, tab, line feed, form feed, carriage
\* return).
is_separator(c) == c = COMMA \/ c = SEMICOLON \/ c \in {32, 9, 10, 12, 13}

\* split(..).filter(|x| !x.is_empty()): the non-empty runs between
\* separators, in order.
RECURSIVE split_tokens(_, _, _, _)
split_tokens(raw, k, cur, out) ==
    IF k > Len(raw) THEN IF cur = <<>> THEN out ELSE Append(out, cur)
    ELSE IF is_separator(raw[k])
    THEN split_tokens(raw, k + 1, <<>>, IF cur = <<>> THEN out ELSE Append(out, cur))
    ELSE split_tokens(raw, k + 1, Append(cur, raw[k]), out)

\* One step of u64::from_str: acc * 10 + d with both operations checked.
push_digit(acc, d) ==
    LET t4 == acc[4] * 10 + d
        t3 == acc[3] * 10 + t4 \div LIMB
        t2 == acc[2] * 10 + t3 \div LIMB
        t1 == acc[1] * 10 + t2 \div LIMB
    IN  [overflow |-> t1 >= LIMB,
         value |-> <<t1 % LIMB, t2 % LIMB, t3 % LIMB, t4 % LIMB>>]

RECURSIVE parse_digits(_, _, _)
parse_digits(digits, k, acc) ==
    IF k > Len(digits) THEN [ok |-> TRUE, value |-> acc]
    ELSE IF digits[k] < ZERO \/ digits[k] > NINE THEN [ok |-> FALSE, value |-> acc]
    ELSE LET r == push_digit(acc, digits[k] - ZERO)
         IN  IF r.overflow THEN [ok |-> FALSE, value |-> acc]
             ELSE parse_digits(digits, k + 1, r.value)

\* token.parse::<u64>(): decimal digits after an optional '+'; no digit at
\* all, any other character and a value above u64::MAX are errors.
parse_u64(token) ==
    LET digits == IF token # <<>> /\ token[1] = PLUS THEN Tail(token) ELSE token
    IN  IF digits = <<>> THEN [ok |-> FALSE, value |-> U64(0)]
        ELSE parse_digits(digits, 1, U64(0))

\* The loop of parse_hardcoded_values over the tokens from token k on.
RECURSIVE parse_tokens(_, _, _)
parse_tokens(tokens, k, out) ==
    IF k > Len(tokens)
    THEN IF out = <<>>
         THEN [tag |-> "err", values |-> <<>>,
               err |-> "FORTUNE_MOD_RAND_HARD_CODED_VALS is set but contains no numeric values"]
         ELSE [tag |-> "ok", values |-> out, err |-> ""]
    ELSE LET parsed == parse_u64(tokens[k])
         IN  IF ~parsed.ok
             THEN [tag |-> "err", values |-> <<>>, err |-> "invalid hardcoded RNG value"]
             ELSE parse_tokens(tokens, k + 1, Append(out, parsed.value))

\* Result<Vec<u64>>
parse_hardcoded_values(raw) == parse_tokens(split_tokens(raw, 1, <<>>, <<>>), 1, <<>>)

\* What from_env finds in the environment: the variable unset, its text
\* rejected by parse_hardcoded_values, or the values parsed.
env_of(var, srand) ==
    IF ~var.set THEN Env("unset", <<>>, srand)
    ELSE LET parsed == parse_hardcoded_values(var.raw)
         IN  IF parsed.tag = "ok" THEN Env("list", parsed.values, srand)
             ELSE Env("invalid", <<>>, srand)

\* raw % upper, for an upper under 2^15.
U64Mod(raw, upper) ==
    ((((((raw[1] % upper) * LIMB + raw[2]) % upper) * LIMB + raw[3]) % upper)
        * LIMB + raw[4]) % upper

\* next_u64 of a HardCoded source that stays at its last value instead of
\* starting over.
next_u64_last(rng) ==
    IF rng.mode = "HardCoded"
    THEN [value |-> rng.values[IF rng.index < Len(rng.values) THEN rng.index + 1
                               ELSE Len(rng.values)],
          rng |-> [rng EXCEPT !.index = @ + 1]]
    ELSE [value |-> rng.values[rng.index + 1],
          rng |-> [rng EXCEPT !.index = @ + 1]]

next_u64(rng) ==
    IF rng.mode = "HardCoded"
    THEN [value |-> rng.values[(rng.index % Len(rng.values)) + 1],
          rng |-> [rng EXCEPT !.index = @ + 1]]
    ELSE [value |-> rng.values[rng.index + 1],
          rng |-> [rng EXCEPT !.index = @ + 1]]

\* raw as usize: a usize of 32 bits keeps the low 32 bits.
as_usize(raw, bits) == IF bits = 32 THEN <<0, 0, raw[3], raw[4]>> ELSE raw

\* next_index on a build whose usize has the given width
next_index_usize(rng, upper, bits) ==
    IF upper = 0 THEN [value |-> 0, rng |-> rng]
    ELSE LET r == next_u64(rng)
         IN  [value |-> U64Mod(as_usize(r.value, bits), upper), rng |-> r.rng]

\* next_index on a build whose usize has 64 bits
next_index(rng, upper) == next_index_usize(rng, upper, 64)

\* ------------------------------------------------------------------------
\* The record segmenter and the index builder (strfile_builder.rs)
\* ------------------------------------------------------------------------

\* Option::None of an Option<usize>.
None == 0 - 1

RecordSpan(start, end) == [start |-> start, end |-> end]

Min(S) == CHOOSE m \in S : \A k \in S : m <= k

\* input[start..].iter().position(|b| *b == b'\n').map(|rel| start + rel)
find_next_newline(input, start) ==
    LET hits == {q \in start..(Len(input) - 1) : At(input, q) = NL}
    IN  IF hits = {} THEN None ELSE Min(hits)

\* line_content_end keeping a trailing carriage return.
line_content_end_keep_cr(input, cursor, line_end) == line_end

\* Where the content of the line cursor..line_end ends: before one trailing
\* carriage return, if it has one.
line_content_end(input, cursor, line_end) ==
    IF line_end > cursor /\ At(input, line_end - 1) = CR
    THEN line_end - 1 ELSE line_end

\* The loop of parse_record_spans from one cursor on. lines records, for every
\* line the loop visits, where it starts and whether the loop took it for a
\* delimiter line.
RECURSIVE parse_loop(_, _, _, _, _, _, _)
parse_loop(input, delimiter, allow_empty, cursor, start, out, lines) ==
    IF ~(cursor < Len(input))
    THEN [start |-> start, out |-> out, lines |-> lines]
    ELSE
    LET nl == find_next_newline(input, cursor)
        line_end == IF nl = None THEN Len(input) ELSE nl
        content_end == line_content_end(input, cursor, line_end)
        is_delim_line == (content_end - cursor = 1) /\ (At(input, cursor) = delimiter)
        next == IF line_end < Len(input) THEN line_end + 1 ELSE line_end
        out2 == IF is_delim_line /\ (allow_empty \/ cursor > start)
                THEN Append(out, RecordSpan(start, cursor)) ELSE out
        start2 == IF is_delim_line THEN next ELSE start
    IN  parse_loop(input, delimiter, allow_empty, next, start2, out2,
                   Append(lines, [at |-> cursor, delim |-> is_delim_line]))

\* What the loop left, with the final span pushed.
parse_tail(input, allow_empty, r) ==
    [spans |-> IF allow_empty \/ r.start < Len(input)
               THEN Append(r.out, RecordSpan(r.start, Len(input)))
               ELSE r.out,
     lines |-> r.lines]

\* parse_record_spans without the final span.
parse_record_spans_no_tail(input, delimiter, allow_empty) ==
    [spans |-> parse_loop(input, delimiter, allow_empty, 0, 0, <<>>, <<>>).out,
     lines |-> parse_loop(input, delimiter, allow_empty, 0, 0, <<>>, <<>>).lines]

\* The spans, and the lines the scan visited.
parse_record_spans(input, delimiter, allow_empty) ==
    parse_tail(input, allow_empty,
               parse_loop(input, delimiter, allow_empty, 0, 0, <<>>, <<>>))

\* len_for_span that leaves the line terminator out of the count.
len_for_span_line(span) ==
    IF span.end > span.start + 1 THEN span.end - span.start - 1 ELSE 0

len_for_span(span) == IF span.end >= span.start THEN span.end - span.start ELSE 0

\* <[u8] as Ord>::cmp: -1, 0 or 1.
RECURSIVE slice_cmp(_, _)
slice_cmp(a, b) ==
    IF a = <<>> /\ b = <<>> THEN 0
    ELSE IF a = <<>> THEN -1
    ELSE IF b = <<>> THEN 1
    ELSE IF Head(a) < Head(b) THEN -1
    ELSE IF Head(a) > Head(b) THEN 1
    ELSE slice_cmp(Tail(a), Tail(b))

\* The comparator build_dat_from_text hands to sort_by.
span_cmp(input, a, b) ==
    slice_cmp(Slice(input, a.start, a.end), Slice(input, b.start, b.end))

\* e inserted into the sorted list before the first element that is not less.
RECURSIVE insert_sorted_unstable(_, _, _)
insert_sorted_unstable(input, sorted, e) ==
    IF sorted = <<>> THEN <<e>>
    ELSE IF span_cmp(input, Head(sorted), e) >= 0 THEN <<e>> \o sorted
    ELSE <<Head(sorted)>> \o insert_sorted_unstable(input, Tail(sorted), e)

\* e inserted into the sorted list after every element that is not greater.
RECURSIVE insert_sorted(_, _, _)
insert_sorted(input, sorted, e) ==
    IF sorted = <<>> THEN <<e>>
    ELSE IF span_cmp(input, Head(sorted), e) = 1 THEN <<e>> \o sorted
    ELSE <<Head(sorted)>> \o insert_sorted(input, Tail(sorted), e)

\* slice::sort_by, a stable sort.
RECURSIVE sort_by(_, _, _)
sort_by(input, items, acc) ==
    IF items = <<>> THEN acc
    ELSE sort_by(input, Tail(items), insert_sorted(input, acc, Head(items)))

swap(items, i, j) ==
    [items EXCEPT ![i + 1] = items[j + 1], ![j + 1] = items[i + 1]]

\* The loop drawing j below i instead of up to i.
RECURSIVE shuffle_loop_below(_, _, _)
shuffle_loop_below(items, rng, i) ==
    IF i < 1 THEN [items |-> items, rng |-> rng]
    ELSE LET j == next_index(rng, i)
         IN  shuffle_loop_below(swap(items, i, j.value), j.rng, i - 1)

RECURSIVE shuffle_loop(_, _, _)
shuffle_loop(items, rng, i) ==
    IF i < 1 THEN [items |-> items, rng |-> rng]
    ELSE LET j == next_index(rng, i + 1)
         IN  shuffle_loop(swap(items, i, j.value), j.rng, i - 1)

fisher_yates_shuffle(items, rng) ==
    IF Len(items) < 2 THEN [items |-> items, rng |-> rng]
    ELSE shuffle_loop(items, rng, Len(items) - 1)

BuildOptions(delimiter, randomize_offsets, order_offsets, allow_empty) ==
    [delimiter |-> delimiter, randomize_offsets |-> randomize_offsets,
     order_offsets |-> order_offsets, allow_empty |-> allow_empty]

BuildStats(record_count, shortest_record, longest_record) ==
    [record_count |-> record_count, shortest_record |-> shortest_record,
     longest_record |-> longest_record]

SetMin(S) == IF S = {} THEN 0 ELSE CHOOSE m \in S : \A k \in S : m <= k
SetMax(S) == IF S = {} THEN 0 ELSE CHOOSE m \in S : \A k \in S : m >= k

\* Result<(DatFile, BuildStats)>, with what the call did on the way: whether it
\* segmented the input, whether it called FortuneRng::from_env, and the
\* FortuneRng as the call left it (its index counts the values drawn).
BuildResult(tag, err, dat, stats, parsed, env_read, rng) ==
    [tag |-> tag, err |-> err, dat |-> dat, stats |-> stats,
     parsed |-> parsed, env_read |-> env_read, rng |-> rng]

\* A result with the segmentation the call computed.
WithScan(result, scan) ==
    [tag |-> result.tag, err |-> result.err, dat |-> result.dat,
     stats |-> result.stats, parsed |-> result.parsed,
     env_read |-> result.env_read, rng |-> result.rng,
     spans |-> scan.spans, lines |-> scan.lines]

NoScan == [spans |-> <<>>, lines |-> <<>>]

NoStats == BuildStats(0, 0, 0)

BuildErr(msg, parsed, env_read) ==
    BuildResult("err", msg, NoDat, NoStats, parsed, env_read, NoRng)

\* spans.iter().map(len_for_span)
span_lens(spans) == {len_for_span(spans[k]) : k \in 1..Len(spans)}

build_flags(opts) ==
    IF opts.randomize_offsets THEN STR_RANDOM
    ELSE IF opts.order_offsets THEN STR_ORDERED
    ELSE 0

\* build_index taking each record's end for its offset.
build_index_ends(opts, spans, ordered, env_read, rng) ==
    BuildResult("ok", "",
        DatFile(DatHeader(STRFILE_VERSION, Len(ordered), SetMax(span_lens(spans)),
                          SetMin(span_lens(spans)), build_flags(opts), opts.delimiter),
                [k \in 1..Len(ordered) |-> ordered[k].end]),
        BuildStats(Len(spans), SetMin(span_lens(spans)), SetMax(span_lens(spans))),
        TRUE, env_read, rng)

\* build_dat_from_text from the offsets loop on: spans as segmented, ordered
\* as sorted, shuffled or left alone.
build_index(opts, spans, ordered, env_read, rng) ==
    IF \E k \in 1..Len(ordered) : ExceedsU32(ordered[k].start)
    THEN BuildErr("record start offset exceeds STRFILE u32", TRUE, env_read)
    ELSE BuildResult("ok", "",
             DatFile(DatHeader(STRFILE_VERSION, Len(ordered), SetMax(span_lens(spans)),
                               SetMin(span_lens(spans)), build_flags(opts),
                               opts.delimiter),
                     [k \in 1..Len(ordered) |-> ordered[k].start]),
             BuildStats(Len(spans), SetMin(span_lens(spans)), SetMax(span_lens(spans))),
             TRUE, env_read, rng)

build_shuffled(opts, spans, shuffled) ==
    build_index(opts, spans, shuffled.items, TRUE, shuffled.rng)

\* The randomize_offsets branch: made is what FortuneRng::from_env returned.
build_randomized(opts, spans, made) ==
    IF made.tag = "err" THEN BuildErr("invalid hardcoded RNG value", TRUE, TRUE)
    ELSE build_shuffled(opts, spans, fisher_yates_shuffle(spans, made.rng))

\* build_dat_from_text once the input is segmented into spans.
build_from_spans(input, opts, env, stream, spans) ==
    IF spans = <<>> THEN BuildErr("no fortune records were parsed", TRUE, FALSE)
    ELSE IF opts.order_offsets
    THEN build_index(opts, spans, sort_by(input, spans, <<>>), FALSE, NoRng)
    ELSE IF opts.randomize_offsets
    THEN build_randomized(opts, spans, from_env(env, stream))
    ELSE build_index(opts, spans, spans, FALSE, NoRng)

build_from_scan(input, opts, env, stream, scan) ==
    WithScan(build_from_spans(input, opts, env, stream, scan.spans), scan)

\* build_dat_from_text rejecting the two flags only after it has segmented
\* the input.
build_dat_from_text_late(input, opts, env, stream) ==
    IF opts.order_offsets /\ opts.randomize_offsets
    THEN WithScan(BuildErr("--order and --random cannot be used together", TRUE, FALSE),
                  parse_record_spans(input, opts.delimiter, opts.allow_empty))
    ELSE build_from_scan(input, opts, env, stream,
                         parse_record_spans(input, opts.delimiter, opts.allow_empty))

\* stream is what a Seeded or Thread generator yields during the call.
build_dat_from_text(input, opts, env, stream) ==
    IF opts.order_offsets /\ opts.randomize_offsets
    THEN WithScan(BuildErr("--order and --random cannot be used together", FALSE, FALSE),
                  NoScan)
    ELSE build_from_scan(input, opts, env, stream,
                         parse_record_spans(input, opts.delimiter, opts.allow_empty))

\* ------------------------------------------------------------------------
\* The corpus reader (FortuneFile)
\* ------------------------------------------------------------------------

FortuneFile(dat, bytes) == [dat |-> dat, bytes |-> bytes]

NoFortuneFile == FortuneFile(NoDat, <<>>)

\* The loop of find_delimiter_start from one cursor on; lines as in parse_loop.
RECURSIVE find_loop(_, _, _, _)
find_loop(bytes, delim, cursor, lines) ==
    IF ~(cursor < Len(bytes)) THEN [found |-> None, lines |-> lines]
    ELSE
    LET hits == {q \in cursor..(Len(bytes) - 1) : At(bytes, q) = NL}
        line_end == IF hits = {} THEN Len(bytes) ELSE Min(hits)
        content_end == IF line_end > cursor /\ At(bytes, line_end - 1) = CR
                       THEN line_end - 1 ELSE line_end
        is_delim_line == content_end = cursor + 1 /\ At(bytes, cursor) = delim
    IN  IF is_delim_line
        THEN [found |-> cursor,
              lines |-> Append(lines, [at |-> cursor, delim |-> TRUE])]
        ELSE find_loop(bytes, delim,
                       IF line_end < Len(bytes) THEN line_end + 1 ELSE line_end,
                       Append(lines, [at |-> cursor, delim |-> FALSE]))

\* find_delimiter_start scanning from the byte after start.
find_delimiter_start_skip(db, start) ==
    find_loop(db.bytes, db.dat.header.delim, start + 1, <<>>)

\* Option<usize> as found, and the lines the scan visited.
find_delimiter_start(db, start) == find_loop(db.bytes, db.dat.header.delim, start, <<>>)

RECURSIVE trimmed_loop(_, _, _, _)
trimmed_loop(bytes, delim, cursor, bound_end) ==
    IF ~(cursor < bound_end) THEN bound_end
    ELSE
    LET hits == {q \in cursor..(bound_end - 1) : At(bytes, q) = NL}
        line_end == IF hits = {} THEN bound_end ELSE Min(hits)
        content_end == IF line_end > cursor /\ At(bytes, line_end - 1) = CR
                       THEN line_end - 1 ELSE line_end
        is_delim_line == content_end = cursor + 1 /\ At(bytes, cursor) = delim
    IN  IF is_delim_line THEN cursor
        ELSE trimmed_loop(bytes, delim,
                          IF line_end < bound_end THEN line_end + 1 ELSE line_end,
                          bound_end)

\* delimiter_trimmed_end cutting a carriage return before the last newline.
delimiter_trimmed_end_cr(db, start, bound_end) ==
    IF bound_end - start >= 2 /\ At(db.bytes, bound_end - 1) = NL
       /\ At(db.bytes, bound_end - 2) = CR
    THEN bound_end - 2 ELSE bound_end

delimiter_trimmed_end(db, start, bound_end) ==
    trimmed_loop(db.bytes, db.dat.header.delim, start, bound_end)

record_count(db) == Len(db.dat.offsets)

SpanErr(msg) ==
    [tag |-> "err", err |-> msg, span |-> RecordSpan(0, 0), lines |-> <<>>]

span_checked(db, start, end, lines) ==
    IF start > end \/ end > Len(db.bytes) THEN SpanErr("invalid record span")
    ELSE [tag |-> "ok", err |-> "", span |-> RecordSpan(start, end), lines |-> lines]

span_found(db, start, scan) ==
    span_checked(db, start,
                 IF scan.found = None THEN Len(db.bytes) ELSE scan.found, scan.lines)

\* Result<RecordSpan>, with the lines find_delimiter_start visited.
span(db, index) ==
    IF ~(index < Len(db.dat.offsets)) THEN SpanErr("record index out of range")
    ELSE span_found(db, db.dat.offsets[index + 1],
                    find_delimiter_start(db, db.dat.offsets[index + 1]))

record_slice(db, start, end) ==
    IF ~SliceOk(db.bytes, start, end)
    THEN [tag |-> "panic", err |-> "", bytes |-> <<>>]
    ELSE [tag |-> "ok", err |-> "", bytes |-> Slice(db.bytes, start, end)]

record_bytes_of(db, sp) ==
    IF sp.tag = "err" THEN [tag |-> "err", err |-> sp.err, bytes |-> <<>>]
    ELSE record_slice(db, sp.span.start,
                      delimiter_trimmed_end(db, sp.span.start, sp.span.end))

\* Result<&[u8]>; "panic" is a slice out of range.
record_bytes(db, index) == record_bytes_of(db, span(db, index))

\* LengthFilter: Any, Short { threshold } or Long { threshold }.
LengthFilter(kind, threshold) == [kind |-> kind, threshold |-> threshold]

AnyLength == LengthFilter("Any", 0)

\* accepts with Short excluding the threshold itself.
accepts_below(f, len) ==
    CASE f.kind = "Any" -> TRUE
      [] f.kind = "Short" -> len < f.threshold
      [] OTHER -> len > f.threshold

accepts(f, len) ==
    CASE f.kind = "Any" -> TRUE
      [] f.kind = "Short" -> len <= f.threshold
      [] OTHER -> len > f.threshold

\* The loop of candidate_indices from idx on; the first record_bytes that fails
\* ends it.
RECURSIVE candidates_loop(_, _, _, _)
candidates_loop(db, f, idx, out) ==
    IF ~(idx < record_count(db)) THEN [tag |-> "ok", err |-> "", out |-> out]
    ELSE IF record_bytes(db, idx).tag # "ok"
    THEN [tag |-> record_bytes(db, idx).tag, err |-> record_bytes(db, idx).err,
          out |-> <<>>]
    ELSE candidates_loop(db, f, idx + 1,
                         IF accepts(f, Len(record_bytes(db, idx).bytes))
                         THEN Append(out, idx) ELSE out)

\* Result<Vec<usize>>
candidate_indices(db, f) == candidates_loop(db, f, 0, <<>>)

\* validate_offsets accepting every offset.
validate_offsets_none(db) == TRUE

\* validate_offsets rejecting an offset at the end of the text as well.
validate_offsets_strict(db) ==
    \A k \in 1..Len(db.dat.offsets) : ~(db.dat.offsets[k] >= Len(db.bytes))

validate_offsets(db) ==
    \A k \in 1..Len(db.dat.offsets) : ~(db.dat.offsets[k] > Len(db.bytes))

\* FortuneFile::open of a text file and its sibling index file. bits is the
\* width of usize.
open(text_file, dat_file, bits) ==
    LET dat == read_from_bytes(dat_file.bytes, bits)
        db == FortuneFile(dat.dat, text_file.bytes)
    IN  IF ~dat_file.exists
        THEN [tag |-> "err", err |-> "failed reading dat file", db |-> NoFortuneFile]
        ELSE IF dat.tag # "ok"
        THEN [tag |-> dat.tag, err |-> dat.err, db |-> NoFortuneFile]
        ELSE IF ~text_file.exists
        THEN [tag |-> "err", err |-> "failed reading fortune text", db |-> NoFortuneFile]
        ELSE IF ~validate_offsets(db)
        THEN [tag |-> "err", err |-> "offset is out of range", db |-> NoFortuneFile]
        ELSE [tag |-> "ok", err |-> "", db |-> db]

\* ---------------------------------------------------------------------
\* f64 arithmetic.  A finite binary64 value is [s, m, e]: sign s, a
\* 53-bit significand m held as little-endian limbs of 15 bits, and the
\* value (-1)^s * m * 2^e.  Zero is the empty significand.  Every
\* operation computes the exact result and rounds it to nearest, ties to
\* even, as IEEE 754 does.  The values of the engine stay far inside the
\* normal range, so subnormals, infinities and NaN do not arise.
\* ---------------------------------------------------------------------
BASE == 128 * 256
\* 52 stored bits and the implicit leading one.
MANT_BITS == 52 + 1

Head0(a) == IF a = <<>> THEN 0 ELSE a[1]
Tail0(a) == IF a = <<>> THEN <<>> ELSE Tail(a)

RECURSIVE BTrim(_)
BTrim(a) ==
    IF a = <<>> THEN a
    ELSE IF a[Len(a)] = 0 THEN BTrim(SubSeq(a, 1, Len(a) - 1))
    ELSE a

RECURSIVE BFromInt(_)
BFromInt(n) == IF n = 0 THEN <<>> ELSE <<n % BASE>> \o BFromInt(n \div BASE)

RECURSIVE BAddC(_, _, _)
BAddC(a, b, carry) ==
    IF a = <<>> /\ b = <<>>
    THEN IF carry = 0 THEN <<>> ELSE <<carry>>
    ELSE <<(Head0(a) + Head0(b) + carry) % BASE>>
         \o BAddC(Tail0(a), Tail0(b), (Head0(a) + Head0(b) + carry) \div BASE)

BAdd(a, b) == BAddC(a, b, 0)

\* a - b for a >= b.
RECURSIVE BSubC(_, _, _)
BSubC(a, b, borrow) ==
    IF a = <<>> THEN <<>>
    ELSE IF a[1] - Head0(b) - borrow < 0
    THEN <<a[1] - Head0(b) - borrow + BASE>> \o BSubC(Tail(a), Tail0(b), 1)
    ELSE <<a[1] - Head0(b) - borrow>> \o BSubC(Tail(a), Tail0(b), 0)

BSub(a, b) == BTrim(BSubC(a, b, 0))

\* -1, 0 or 1 as a is below, equal to or above b (both trimmed).
RECURSIVE BCmpAt(_, _, _)
BCmpAt(a, b, i) ==
    IF i = 0 THEN 0
    ELSE IF a[i] < b[i] THEN 0 - 1
    ELSE IF a[i] > b[i] THEN 1
    ELSE BCmpAt(a, b, i - 1)

BCmp(a, b) ==
    IF Len(a) < Len(b) THEN 0 - 1
    ELSE IF Len(a) > Len(b) THEN 1
    ELSE BCmpAt(a, b, Len(a))

\* a * k + carry for k <= BASE.
RECURSIVE BMulSmall(_, _, _)
BMulSmall(a, k, carry) ==
    IF a = <<>>
    THEN BFromInt(carry)
    ELSE <<(a[1] * k + carry) % BASE>>
         \o BMulSmall(Tail(a), k, (a[1] * k + carry) \div BASE)

RECURSIVE BMul(_, _)
BMul(a, b) ==
    IF b = <<>> \/ a = <<>> THEN <<>>
    ELSE BAdd(BMulSmall(a, b[1], 0), <<0>> \o BMul(a, Tail(b)))

\* a * 2^n.
BShl(a, n) ==
    IF a = <<>> THEN a
    ELSE [i \in 1..(n \div 15) |-> 0] \o BTrim(BMulSmall(a, 2 ^ (n % 15), 0))

\* floor(a / k) for k < BASE, from the top limb down; rem is the running
\* remainder.
RECURSIVE BDivSmall(_, _, _)
BDivSmall(a, k, rem) ==
    IF a = <<>> THEN <<>>
    ELSE BDivSmall(SubSeq(a, 1, Len(a) - 1), k, (rem * BASE + a[Len(a)]) % k)
         \o <<(rem * BASE + a[Len(a)]) \div k>>

\* floor(a / 2^n).
BShr(a, n) ==
    IF n \div 15 >= Len(a) THEN <<>>
    ELSE BTrim(BDivSmall(SubSeq(a, n \div 15 + 1, Len(a)), 2 ^ (n % 15), 0))

RECURSIVE BitLenInt(_)
BitLenInt(n) == IF n = 0 THEN 0 ELSE 1 + BitLenInt(n \div 2)

BBitLen(a) == IF a = <<>> THEN 0 ELSE 15 * (Len(a) - 1) + BitLenInt(a[Len(a)])

\* Bit i of a, counting from 0 at the least significant end.
BBit(a, i) ==
    IF i \div 15 >= Len(a) THEN 0
    ELSE (a[i \div 15 + 1] \div (2 ^ (i % 15))) % 2

\* Whether any of the low n bits of a is set.
BLowBits(a, n) ==
    \/ \E i \in 1..(n \div 15) : i <= Len(a) /\ a[i] # 0
    \/ n \div 15 < Len(a) /\ a[n \div 15 + 1] % (2 ^ (n % 15)) # 0

\* Binary long division of r * 2^k by b for r < b: every step doubles the
\* remainder and takes one quotient bit.
RECURSIVE BDivBits(_, _, _)
BDivBits(b, k, st) ==
    IF k = 0 THEN st
    ELSE IF BCmp(BMulSmall(st.r, 2, 0), b) >= 0
    THEN BDivBits(b, k - 1, [q |-> BMulSmall(st.q, 2, 1),
                             r |-> BSub(BMulSmall(st.r, 2, 0), b)])
    ELSE BDivBits(b, k - 1, [q |-> BMulSmall(st.q, 2, 0),
                             r |-> BMulSmall(st.r, 2, 0)])

\* Quotient and remainder of a * 2^k by b, for a and b of one bit length.
BDivMod(a, b, k) ==
    IF BCmp(a, b) >= 0
    THEN BDivBits(b, k, [q |-> <<1>>, r |-> BSub(a, b)])
    ELSE BDivBits(b, k, [q |-> <<>>, r |-> a])

F64(s, m, e) == [s |-> s, m |-> m, e |-> e]
FZero == F64(0, <<>>, 0)
IsZero(a) == a.m = <<>>

\* A significand that rounding carried up to 2^53 is halved.
FNorm(s, q, e) ==
    IF BBitLen(q) > MANT_BITS THEN F64(s, BShr(q, 1), e + 1) ELSE F64(s, q, e)

\* n has more than 53 bits: drop the low sh bits, rounding to nearest and
\* ties to even.  sticky says that the exact value lies above n * 2^e.
FRoundDrop(s, n, e, sh, sticky) ==
    IF BBit(n, sh - 1) = 1 /\ (sticky \/ BLowBits(n, sh - 1) \/ BBit(n, sh) = 1)
    THEN FNorm(s, BAdd(BShr(n, sh), <<1>>), e + sh)
    ELSE F64(s, BShr(n, sh), e + sh)

\* The f64 nearest to (-1)^s * n * 2^e.
FRound(s, n, e, sticky) ==
    IF n = <<>> THEN FZero
    ELSE IF BBitLen(n) <= MANT_BITS
    THEN F64(s, BShl(n, MANT_BITS - BBitLen(n)), e - (MANT_BITS - BBitLen(n)))
    ELSE FRoundDrop(s, n, e, BBitLen(n) - MANT_BITS, sticky)

FNeg(a) == IF IsZero(a) THEN a ELSE F64(1 - a.s, a.m, a.e)

\* The sum of two magnitudes ma and mb scaled by 2^e, with the signs sa
\* and sb.
FAddAligned(sa, ma, sb, mb, e) ==
    IF sa = sb THEN FRound(sa, BAdd(ma, mb), e, FALSE)
    ELSE IF BCmp(ma, mb) = 0 THEN FZero
    ELSE IF BCmp(ma, mb) > 0 THEN FRound(sa, BSub(ma, mb), e, FALSE)
    ELSE FRound(sb, BSub(mb, ma), e, FALSE)

FAddAt(a, b, e) ==
    FAddAligned(a.s, BShl(a.m, a.e - e), b.s, BShl(b.m, b.e - e), e)

FAdd(a, b) ==
    IF IsZero(a) THEN b
    ELSE IF IsZero(b) THEN a
    ELSE FAddAt(a, b, IF a.e < b.e THEN a.e ELSE b.e)

FSub(a, b) == FAdd(a, FNeg(b))

FMul(a, b) ==
    IF IsZero(a) \/ IsZero(b) THEN FZero
    ELSE FRound((a.s + b.s) % 2, BMul(a.m, b.m), a.e + b.e, FALSE)

FDivOf(s, dm, e) == FRound(s, dm.q, e, dm.r # <<>>)

\* a / b for b # 0: 55 extra quotient bits give the guard bit, the
\* remainder the sticky bit.
FDiv(a, b) ==
    IF IsZero(a) THEN FZero
    ELSE FDivOf((a.s + b.s) % 2, BDivMod(a.m, b.m, 55), a.e - b.e - 55)

FLt(a, b) == FSub(a, b).s = 1
FLe(a, b) == ~FLt(b, a)
FGt(a, b) == FLt(b, a)
FMax(a, b) == IF FLt(a, b) THEN b ELSE a

\* n as f64.
FFromInt(n) == FRound(0, BFromInt(n), 0, FALSE)

\* raw as f64, for a u64 of four 16-bit limbs.
FFromU64(raw) ==
    FRound(0, BAdd(BShl(BFromInt(raw[1]), 48),
                   BAdd(BShl(BFromInt(raw[2]), 32),
                        BAdd(BShl(BFromInt(raw[3]), 16), BFromInt(raw[4])))),
           0, FALSE)

\* ------------------------------------------------------------------------
\* The selection engine (fortune_engine.rs)
\* ------------------------------------------------------------------------

One == FFromInt(1)
Hundred == FFromInt(100)

\* f64::EPSILON, 2^-52.
EPSILON == F64(0, One.m, One.e - 52)

\* Option<f64>
NoPercent == [some |-> FALSE, p |-> FZero]
Percent(p) == [some |-> TRUE, p |-> p]

WeightedSource(path, explicit_percent) ==
    [path |-> path, explicit_percent |-> explicit_percent]

\* path is db.text_path.
LoadedSource(path, db, explicit_percent, indices) ==
    [path |-> path, db |-> db, explicit_percent |-> explicit_percent,
     candidate_indices |-> indices]

LoadErr(tag, err) == [tag |-> tag, err |-> err, out |-> <<>>]

\* from_utf8_lossy of bytes that hold no multi-byte sequence: a byte below
\* 0x80 is its character, any other byte becomes U+FFFD.
from_utf8_lossy(bytes) ==
    [k \in 1..Len(bytes) |-> IF bytes[k] < 128 THEN bytes[k] ELSE 65533]

record_text_of(res) ==
    IF res.tag # "ok" THEN [tag |-> res.tag, err |-> res.err, text |-> <<>>]
    ELSE [tag |-> "ok", err |-> "", text |-> from_utf8_lossy(res.bytes)]

\* Result<String>
record_text_lossy(db, index) == record_text_of(record_bytes(db, index))

\* The loop of load_sources from source k on; disk gives the corpus file and
\* the index file at a path. A source that cannot be opened or listed ends
\* the load, a source without candidates is skipped.
RECURSIVE load_loop(_, _, _, _, _, _)
\* load_step that keeps a source without candidates.
load_step_keep(discovered, disk, f, bits, k, out, db, c) ==
    IF db.tag # "ok" THEN LoadErr(db.tag, db.err)
    ELSE IF c.tag # "ok" THEN LoadErr(c.tag, c.err)
    ELSE load_loop(discovered, disk, f, bits, k + 1,
                   Append(out, LoadedSource(discovered[k].path, db.db,
                                            discovered[k].explicit_percent,
                                            c.out)))

load_step(discovered, disk, f, bits, k, out, db, c) ==
    IF db.tag # "ok" THEN LoadErr(db.tag, db.err)
    ELSE IF c.tag # "ok" THEN LoadErr(c.tag, c.err)
    ELSE load_loop(discovered, disk, f, bits, k + 1,
                   IF c.out = <<>> THEN out
                   ELSE Append(out, LoadedSource(discovered[k].path, db.db,
                                                 discovered[k].explicit_percent,
                                                 c.out)))

load_opened(discovered, disk, f, bits, k, out, db) ==
    load_step(discovered, disk, f, bits, k, out, db,
              IF db.tag = "ok" THEN candidate_indices(db.db, f) ELSE LoadErr("", ""))

load_loop(discovered, disk, f, bits, k, out) ==
    IF k > Len(discovered)
    THEN IF out = <<>>
         THEN LoadErr("err", "no fortune records are available after filtering")
         ELSE [tag |-> "ok", err |-> "", out |-> out]
    ELSE load_opened(discovered, disk, f, bits, k, out,
                     open(disk[discovered[k].path].text, disk[discovered[k].path].dat,
                          bits))

\* Result<Vec<LoadedSource>>
load_sources(discovered, disk, f, bits) == load_loop(discovered, disk, f, bits, 1, <<>>)

\* A Regex built by RegexBuilder from a pattern without metacharacters: the
\* literal it searches for and whether case is ignored.
Regex(lit, ignore_case) == [lit |-> lit, ignore_case |-> ignore_case]

\* Simple case folding of a character of the texts at hand: an ASCII capital
\* folds to its small letter.
fold(c) == IF c >= 65 /\ c <= 90 THEN c + 32 ELSE c

\* Regex::is_match: the literal occurs somewhere in the text.
is_match(re, t) ==
    \E k \in 0..(Len(t) - Len(re.lit)) :
        \A j \in 1..Len(re.lit) :
            IF re.ignore_case THEN fold(t[k + j]) = fold(re.lit[j])
            ELSE t[k + j] = re.lit[j]

MatchRecord(source_path, record_index, txt) ==
    [source_path |-> source_path, record_index |-> record_index, text |-> txt]

MatchErr(tag, err) == [tag |-> tag, err |-> err, out |-> <<>>]

\* The inner loop of collect_matches that puts a match before the matches
\* collected so far.
RECURSIVE collect_source_front(_, _, _, _, _)
collect_source_front(source, re, k, out, t) ==
    IF k > Len(source.candidate_indices) THEN [tag |-> "ok", err |-> "", out |-> out]
    ELSE IF t.tag # "ok" THEN MatchErr(t.tag, t.err)
    ELSE collect_source_front(
             source, re, k + 1,
             IF is_match(re, t.text)
             THEN <<MatchRecord(source.path, source.candidate_indices[k], t.text)>> \o out
             ELSE out,
             IF k + 1 > Len(source.candidate_indices) THEN t
             ELSE record_text_lossy(source.db, source.candidate_indices[k + 1]))

\* The inner loop of collect_matches from candidate k on; t is the text of
\* candidate k. A record that cannot be read ends the scan.
RECURSIVE collect_source(_, _, _, _, _)
collect_source(source, re, k, out, t) ==
    IF k > Len(source.candidate_indices) THEN [tag |-> "ok", err |-> "", out |-> out]
    ELSE IF t.tag # "ok" THEN MatchErr(t.tag, t.err)
    ELSE collect_source(
             source, re, k + 1,
             IF is_match(re, t.text)
             THEN Append(out, MatchRecord(source.path, source.candidate_indices[k], t.text))
             ELSE out,
             IF k + 1 > Len(source.candidate_indices) THEN t
             ELSE record_text_lossy(source.db, source.candidate_indices[k + 1]))

\* The outer loop of collect_matches from source s on.
RECURSIVE collect_loop(_, _, _, _)
collect_loop(es, re, s, acc) ==
    IF acc.tag # "ok" \/ s > Len(es) THEN acc
    ELSE collect_loop(es, re, s + 1,
                      collect_source(es[s], re, 1, acc.out,
                                     IF es[s].candidate_indices = <<>>
                                     THEN [tag |-> "ok", err |-> "", text |-> <<>>]
                                     ELSE record_text_lossy(es[s].db,
                                                            es[s].candidate_indices[1])))

\* Result<Vec<MatchRecord>>
collect_matches(es, re) == collect_loop(es, re, 1, [tag |-> "ok", err |-> "", out |-> <<>>])

\* iter().sum() of f64 values: a left fold from 0.0.
RECURSIVE FSumFrom(_, _, _)
FSumFrom(ps, k, acc) ==
    IF k > Len(ps) THEN acc ELSE FSumFrom(ps, k + 1, FAdd(acc, ps[k]))

FSum(ps) == FSumFrom(ps, 1, FZero)

\* The explicit percents of the entries, in order.
RECURSIVE explicit_percents(_)
explicit_percents(entries) ==
    IF entries = <<>> THEN <<>>
    ELSE (IF entries[1].explicit_percent.some
          THEN <<entries[1].explicit_percent.p>> ELSE <<>>)
         \o explicit_percents(Tail(entries))

\* base_weight that takes the candidate count whatever equal_prob says.
base_weight_count(entry, equal_prob) ==
    IF entry.explicit_percent.some THEN FZero
    ELSE FFromInt(Len(entry.candidate_indices))

base_weight(entry, equal_prob) ==
    IF entry.explicit_percent.some THEN FZero
    ELSE IF equal_prob THEN One
    ELSE FFromInt(Len(entry.candidate_indices))

base_weights(entries, equal_prob) ==
    [k \in 1..Len(entries) |-> base_weight(entries[k], equal_prob)]

prob_of(entry, base, remaining, total_base) ==
    IF entry.explicit_percent.some THEN entry.explicit_percent.p
    ELSE IF FGt(total_base, FZero) THEN FMul(remaining, FDiv(base, total_base))
    ELSE FZero

probs_of(entries, bases, remaining, total_base) ==
    [k \in 1..Len(entries) |->
        FMax(prob_of(entries[k], bases[k], remaining, total_base), FZero)]

ProbErr(err) == [tag |-> "err", err |-> err, out |-> <<>>]

\* probs_checked without the check of the sum.
probs_unchecked(ps) == [tag |-> "ok", err |-> "", out |-> ps]

probs_checked(ps) ==
    IF FLe(FSum(ps), FZero)
    THEN ProbErr("computed source probabilities are all zero")
    ELSE [tag |-> "ok", err |-> "", out |-> ps]

probs_from(entries, bases, specified_total) ==
    IF FGt(specified_total, FAdd(Hundred, EPSILON))
    THEN ProbErr("specified probability total exceeds 100%")
    ELSE probs_checked(probs_of(entries, bases,
                                FMax(FSub(Hundred, specified_total), FZero),
                                FSum(bases)))

\* Result<Vec<f64>>
calculate_probabilities(entries, equal_prob) ==
    IF entries = <<>> THEN ProbErr("no source entries were provided")
    ELSE probs_from(entries, base_weights(entries, equal_prob),
                    FSum(explicit_percents(entries)))

U64_MAX == <<LIMB - 1, LIMB - 1, LIMB - 1, LIMB - 1>>

unit_of(r) ==
    [value |-> FDiv(FFromU64(r.value), FAdd(FFromU64(U64_MAX), One)), rng |-> r.rng]

\* next_unit_f64: the value in [0, 1] and the generator afterwards.
next_unit_f64(rng) == unit_of(next_u64(rng))

\* choose_loop that also stops at a probability equal to the marker.
RECURSIVE choose_loop_le(_, _, _, _)
choose_loop_le(probabilities, idx, marker, last) ==
    IF ~(idx < Len(probabilities)) THEN last
    ELSE IF FLe(marker, probabilities[idx + 1]) THEN idx
    ELSE choose_loop_le(probabilities, idx + 1,
                        FSub(marker, probabilities[idx + 1]), last)

\* The loop of select_random_fortune over the probabilities from position
\* idx on (0-based); chosen_idx starts as the last entry.
RECURSIVE choose_loop(_, _, _, _)
choose_loop(probabilities, idx, marker, last) ==
    IF ~(idx < Len(probabilities)) THEN last
    ELSE IF FLt(marker, probabilities[idx + 1]) THEN idx
    ELSE choose_loop(probabilities, idx + 1,
                     FSub(marker, probabilities[idx + 1]), last)

NoSelection ==
    [source_path |-> "", record_index |-> 0, text |-> <<>>]

\* Result<FortuneSelection>, with the draw u, the marker, the position of the
\* chosen entry and the generator afterwards.
Selected(tag, err, selection, u, marker, chosen_idx, rng) ==
    [tag |-> tag, err |-> err, selection |-> selection, u |-> u,
     marker |-> marker, chosen_idx |-> chosen_idx, rng |-> rng]

select_text(chosen, record_index, t, u, marker, chosen_idx, rng) ==
    IF t.tag # "ok" THEN Selected(t.tag, t.err, NoSelection, u, marker, chosen_idx, rng)
    ELSE Selected("ok", "",
                  [source_path |-> chosen.path, record_index |-> record_index,
                   text |-> t.text],
                  u, marker, chosen_idx, rng)

\* select_record taking the position drawn as the record index.
select_record_pos(chosen, pos, u, marker, chosen_idx) ==
    select_text(chosen, pos.value, record_text_lossy(chosen.db, pos.value),
                u, marker, chosen_idx, pos.rng)

\* "panic" is candidate_indices[record_pos] out of bounds.
select_record(chosen, pos, u, marker, chosen_idx) ==
    IF ~(pos.value < Len(chosen.candidate_indices))
    THEN Selected("panic", "", NoSelection, u, marker, chosen_idx, pos.rng)
    ELSE select_text(chosen, chosen.candidate_indices[pos.value + 1],
                     record_text_lossy(chosen.db,
                                       chosen.candidate_indices[pos.value + 1]),
                     u, marker, chosen_idx, pos.rng)

select_chosen(entries, u, marker, chosen_idx, bits) ==
    select_record(entries[chosen_idx + 1],
                  next_index_usize(u.rng, Len(entries[chosen_idx + 1].candidate_indices),
                                   bits),
                  u.value, marker, chosen_idx)

select_marked(entries, probabilities, u, marker, bits) ==
    select_chosen(entries, u, marker,
                  choose_loop(probabilities, 0, marker, Len(entries) - 1), bits)

select_drawn(entries, probabilities, total, u, bits) ==
    select_marked(entries, probabilities, u, FMul(u.value, total), bits)

select_total(entries, probabilities, total, rng, bits) ==
    IF FLe(total, FZero)
    THEN Selected("err", "total probability is zero", NoSelection,
                  FZero, FZero, None, rng)
    ELSE select_drawn(entries, probabilities, total, next_unit_f64(rng), bits)

\* select_random_fortune rejecting only a probability list longer than the
\* entries.
select_random_fortune_longer(entries, probabilities, rng, bits) ==
    IF Len(entries) < Len(probabilities)
    THEN Selected("err", "entries/probabilities length mismatch", NoSelection,
                  FZero, FZero, None, rng)
    ELSE select_total(entries, probabilities, FSum(probabilities), rng, bits)

\* bits is the width of usize of the build.
select_random_fortune(entries, probabilities, rng, bits) ==
    IF Len(entries) # Len(probabilities)
    THEN Selected("err", "entries/probabilities length mismatch", NoSelection,
                  FZero, FZero, None, rng)
    ELSE select_total(entries, probabilities, FSum(probabilities), rng, bits)

\* ------------------------------------------------------------------------
\* State
\* ------------------------------------------------------------------------

VARIABLES
    pc,         \* where the run is
    usizeBits,  \* the width of usize of the build: 32 or 64
    x,          \* codec run: the DatFile handed to to_bytes / write_to_path
    buf,        \* codec run: the raw buffer handed to read_from_bytes
    enc,        \* codec run: to_bytes(x)
    rt,         \* codec run: read_from_bytes of the encoded bytes
    dec,        \* codec run: read_from_bytes(buf)
    dec2,       \* codec run: read_from_bytes of buf with other padding bytes
    text,       \* the corpus file
    opts,       \* the BuildOptions of the strfile run
    env,        \* the environment of the strfile run
    built,      \* what build_dat_from_text returned to the strfile run
    toolRes,    \* what run / write_to_path returned: "none", "ok", "err"
    datFile,    \* the index file (the destination of the write)
    fsCalls,    \* the buffers handed to fs::write for the index file, in order
    opened,     \* what FortuneFile::open returned
    rec,        \* the last record read: its index, what span and record_bytes returned
    filter,     \* the LengthFilter handed to candidate_indices
    cands,      \* what candidate_indices returned
    discovered, \* the weighted sources handed to load_sources
    equalProb,  \* the equal_prob flag handed to calculate_probabilities
    entries,    \* what load_sources returned
    probs,      \* what calculate_probabilities returned
    sel,        \* the last call of select_random_fortune: what it was handed
                \* and what it returned
    rerun,      \* the same call in a second run of the program
    pattern,    \* the -m pattern of the run, if any
    matches,    \* what collect_matches returned
    hardRaw,    \* generator run: the text of FORTUNE_MOD_RAND_HARD_CODED_VALS
    gen,        \* generator run: the FortuneRng
    drawn       \* generator run: the calls made on it and what they returned

vars == <<pc, usizeBits, x, buf, enc, rt, dec, dec2, text, opts, env, built,
          toolRes, datFile, fsCalls, opened, rec, filter, cands,
          discovered, equalProb, entries, probs, sel,
          rerun, pattern, matches, hardRaw, gen, drawn>>

codecVars == <<x, buf, enc, rt, dec, dec2>>
toolVars == <<text, opts, env, built, opened, rec>>
readerVars == <<filter, cands>>
engineVars == <<discovered, equalProb, entries, probs, sel>>
scanVars == <<rerun, pattern, matches>>
rngVars == <<hardRaw, gen, drawn>>

NoBytes == BytesErr("")
NoDecode == DatErr("")
NoBuild == WithScan(BuildResult("none", "", NoDat, NoStats, FALSE, FALSE, NoRng), NoScan)
NoOpen == [tag |-> "none", err |-> "", db |-> NoFortuneFile]
NoRec == [index |-> 0, span |-> SpanErr(""),
          res |-> [tag |-> "none", err |-> "", bytes |-> <<>>]]
DefaultOptions == BuildOptions(PERCENT, FALSE, FALSE, FALSE)
NoEnv == Env("unset", <<>>, FALSE)
NoCands == [tag |-> "none", err |-> "", out |-> <<>>]
NoLoad == LoadErr("none", "")
NoProbs == [tag |-> "none", err |-> "", out |-> <<>>]
NoSel == [entries |-> <<>>, probabilities |-> <<>>, rng |-> NoRng,
          res |-> Selected("none", "", NoSelection, FZero, FZero, None, NoRng)]
NoEngine ==
    /\ discovered = <<>> /\ equalProb = FALSE
    /\ entries = NoLoad /\ probs = NoProbs /\ sel = NoSel
NoPattern == [some |-> FALSE, lit |-> <<>>, ignore_case |-> FALSE]
NoMatches == [tag |-> "none", err |-> "", out |-> <<>>]
NoScanRun == rerun = NoSel /\ pattern = NoPattern /\ matches = NoMatches
NoRngRun == hardRaw = <<>> /\ gen = NoRng /\ drawn = <<>>

\* ------------------------------------------------------------------------
\* Inputs
\* ------------------------------------------------------------------------

\* All sequences over S of length at most n.
RECURSIVE SeqsUpTo(_, _)
SeqsUpTo(S, n) ==
    IF n = 0 THEN {<<>>}
    ELSE LET shorter == SeqsUpTo(S, n - 1)
         IN  shorter \cup {Append(q, e) : q \in {r \in shorter : Len(r) = n - 1}, e \in S}

SeqsOfLen(S, n) == {q \in SeqsUpTo(S, n) : Len(q) = n}

\* Indexes handed to the encoder: numstr is drawn apart from the offsets, so
\* that it may or may not be their count; offsets in any order, with repeats.
DrawnDatFiles ==
    {DatFile(DatHeader(v, n, l, s, f, d), o) :
        v \in {STRFILE_VERSION, 258}, n \in 0..(MaxOffsets + 1),
        l \in {0, 20, 66051}, s \in {0, 4},
        f \in {0, STR_ORDERED, STR_ROTATED + STR_RANDOM}, d \in {PERCENT, 0},
        o \in SeqsUpTo({0, 12, 16777217}, MaxOffsets)}

\* Raw buffers handed to the decoder: a header whose numstr is any of the
\* counts around the table's, or one whose table cannot be held, then a table
\* of any words, cut at any length.
NumstrWords ==
    {<<0, 0, 0, n>> : n \in 0..(MaxOffsets + 1)}
    \cup {<<0, 0, 1, 0>>, <<63, 255, 255, 255>>, <<64, 0, 0, 0>>, <<127, 255, 255, 255>>}

PadChoices == {<<0, 0, 0>>, <<9, 8, 7>>}

FullBuffers ==
    {<<1, 2, 3, 4>> \o n \o <<0, 0, 0, 20>> \o <<0, 0, 1, 4>> \o <<0, 0, 0, 7>>
        \o <<d>> \o p \o Flatten(t) :
        n \in NumstrWords, d \in {PERCENT, 255}, p \in PadChoices,
        t \in SeqsUpTo({<<0, 0, 0, 0>>, <<0, 0, 1, 2>>}, MaxOffsets + 1)}

DrawnBuffers == UNION {{Slice(b, 0, cut) : cut \in 0..Len(b)} : b \in FullBuffers}

\* buf with its padding bytes 21..23 (those it has) replaced by p.
WithPad(b, p) ==
    [k \in 1..Len(b) |-> IF k - 1 \in 21..23 THEN p[k - 21] ELSE b[k]]

InitCodec ==
    /\ pc = "codec"
    /\ usizeBits \in {32, 64}
    /\ \/ x \in DrawnDatFiles /\ buf = <<>>
       \/ x = NoDat /\ buf \in DrawnBuffers
    /\ enc = NoBytes /\ rt = NoDecode /\ dec = NoDecode /\ dec2 = NoDecode
    /\ text = <<>> /\ opts = DefaultOptions /\ env = NoEnv
    /\ built = NoBuild /\ toolRes = "none"
    /\ datFile = NoFile /\ fsCalls = <<>>
    /\ opened = NoOpen /\ rec = NoRec
    /\ filter = AnyLength /\ cands = NoCands
    /\ NoEngine
    /\ NoScanRun /\ NoRngRun

\* to_bytes(x)
Encode ==
    /\ pc = "codec" /\ buf = <<>>
    /\ enc' = to_bytes(x)
    /\ pc' = "encoded"
    /\ UNCHANGED <<usizeBits, x, buf, rt, dec, dec2, toolRes, datFile, fsCalls>>
    /\ UNCHANGED toolVars
    /\ UNCHANGED readerVars
    /\ UNCHANGED engineVars
    /\ UNCHANGED scanVars
    /\ UNCHANGED rngVars

\* read_from_bytes of what to_bytes returned
DecodeEncoded ==
    /\ pc = "encoded" /\ enc.tag = "ok"
    /\ rt' = read_from_bytes(enc.bytes, usizeBits)
    /\ pc' = "roundtrip"
    /\ UNCHANGED <<usizeBits, x, buf, enc, dec, dec2, toolRes, datFile, fsCalls>>
    /\ UNCHANGED toolVars
    /\ UNCHANGED readerVars
    /\ UNCHANGED engineVars
    /\ UNCHANGED scanVars
    /\ UNCHANGED rngVars

\* x.write_to_path(the index file)
WriteToPath ==
    /\ pc = "codec" /\ buf = <<>>
    /\ \E io \in IoOutcomes :
          \E w \in {write_to_path(x, datFile, io)} :
             /\ toolRes' = w.tag
             /\ datFile' = w.file
             /\ fsCalls' = fsCalls \o w.calls
    /\ pc' = "written"
    /\ UNCHANGED <<usizeBits>>
    /\ UNCHANGED codecVars
    /\ UNCHANGED toolVars
    /\ UNCHANGED readerVars
    /\ UNCHANGED engineVars
    /\ UNCHANGED scanVars
    /\ UNCHANGED rngVars

\* read_from_bytes(buf)
Decode ==
    /\ pc = "codec" /\ x = NoDat
    /\ dec' = read_from_bytes(buf, usizeBits)
    /\ pc' = "decoded"
    /\ UNCHANGED <<usizeBits, x, buf, enc, rt, dec2, toolRes, datFile, fsCalls>>
    /\ UNCHANGED toolVars
    /\ UNCHANGED readerVars
    /\ UNCHANGED engineVars
    /\ UNCHANGED scanVars
    /\ UNCHANGED rngVars

\* read_from_bytes of the same buffer with other padding bytes
DecodeRepadded ==
    /\ pc = "decoded"
    /\ \E p \in {<<0, 0, 0>>, <<255, 1, 37>>} :
          /\ WithPad(buf, p) # buf
          /\ dec2' = read_from_bytes(WithPad(buf, p), usizeBits)
    /\ pc' = "repadded"
    /\ UNCHANGED <<usizeBits, x, buf, enc, rt, dec, toolRes, datFile, fsCalls>>
    /\ UNCHANGED toolVars
    /\ UNCHANGED readerVars
    /\ UNCHANGED engineVars
    /\ UNCHANGED scanVars
    /\ UNCHANGED rngVars

NextCodec == Encode \/ DecodeEncoded \/ WriteToPath \/ Decode \/ DecodeRepadded

SpecCodec == InitCodec /\ [][NextCodec]_vars

\* ------------------------------------------------------------------------
\* The strfile run and the reader
\* ------------------------------------------------------------------------

\* Corpus bytes: the first delimiter, the line terminator, a carriage return
\* (also the second delimiter) and a text byte.
TextBytes == {PERCENT, NL, CR, 97}

Delimiters == {PERCENT, CR}

\* The corpora of the repository's tests:
\* "one\n%\ntwo\n%\nthree\n", "alpha\n%\nbeta\n" and
\* "first fortune\n%\nsecond fortune\n".
OneTwoThree ==
    <<111, 110, 101, 10, 37, 10, 116, 119, 111, 10, 37, 10, 116, 104, 114, 101, 101, 10>>
AlphaBeta == <<97, 108, 112, 104, 97, 10, 37, 10, 98, 101, 116, 97, 10>>
FirstSecond ==
    <<102, 105, 114, 115, 116, 32, 102, 111, 114, 116, 117, 110, 101, 10, 37, 10,
      115, 101, 99, 111, 110, 100, 32, 102, 111, 114, 116, 117, 110, 101, 10>>

Corpora == SeqsUpTo(TextBytes, MaxLen) \cup {OneTwoThree, AlphaBeta, FirstSecond}

Environments ==
    {Env("unset", <<>>, FALSE), Env("unset", <<>>, TRUE),
     Env("invalid", <<>>, FALSE), Env("list", <<U64(1), U64(0)>>, FALSE)}

\* What a Seeded or Thread generator may yield.
StreamValues == {U64(n) : n \in 0..2}

\* How many values the build draws from such a generator: one per step of the
\* shuffle. Only what is drawn of the stream is part of the state.
DrawsOf(input, o, e) ==
    LET n == Len(parse_record_spans(input, o.delimiter, o.allow_empty).spans)
    IN  IF o.order_offsets \/ ~o.randomize_offsets THEN 0
        ELSE IF e.hard # "unset" \/ n < 2 THEN 0
        ELSE n - 1

InitTool ==
    /\ pc = "start"
    /\ usizeBits = 64
    /\ text \in Corpora
    /\ opts \in {BuildOptions(d, r, o, a) :
                    d \in Delimiters, r \in BOOLEAN, o \in BOOLEAN, a \in BOOLEAN}
    /\ env \in IF opts.randomize_offsets THEN Environments ELSE {NoEnv}
    /\ x = NoDat /\ buf = <<>>
    /\ enc = NoBytes /\ rt = NoDecode /\ dec = NoDecode /\ dec2 = NoDecode
    /\ built = NoBuild /\ toolRes = "none"
    /\ datFile = NoFile /\ fsCalls = <<>>
    /\ opened = NoOpen /\ rec = NoRec
    /\ filter = AnyLength /\ cands = NoCands
    /\ NoEngine
    /\ NoScanRun /\ NoRngRun

\* run() of the strfile tool: what it returned, what build_dat_from_text
\* returned to it, the buffers it handed to fs::write and the index file
\* afterwards.
RunResult(tag, b, calls, file) ==
    [tag |-> tag, built |-> b, calls |-> calls, file |-> file]

run_written(b, w) == RunResult(w.tag, b, w.calls, w.file)

run_built(b, file, io) ==
    IF b.tag # "ok" THEN RunResult("err", b, <<>>, file)
    ELSE run_written(b, write_to_path(b.dat, file, io))

\* readable: whether fs::read of the input succeeds.
run(input, readable, options, e, stream, file, io) ==
    IF ~readable THEN RunResult("err", NoBuild, <<>>, file)
    ELSE run_built(build_dat_from_text(input, options, e, stream), file, io)

RunStrfile ==
    /\ pc = "start"
    /\ \E readable \in BOOLEAN, io \in IoOutcomes,
          stream \in SeqsOfLen(StreamValues, DrawsOf(text, opts, env)) :
          \E r \in {run(text, readable, opts, env, stream, datFile, io)} :
             /\ built' = r.built
             /\ toolRes' = r.tag
             /\ datFile' = r.file
             /\ fsCalls' = fsCalls \o r.calls
    /\ pc' = "built"
    /\ UNCHANGED <<usizeBits, text, opts, env, opened, rec>>
    /\ UNCHANGED codecVars
    /\ UNCHANGED readerVars
    /\ UNCHANGED engineVars
    /\ UNCHANGED scanVars
    /\ UNCHANGED rngVars

\* FortuneFile::open(the corpus file)
Open ==
    /\ pc \in {"built", "closed"}
    /\ opened' = open([exists |-> TRUE, bytes |-> text], datFile, usizeBits)
    /\ pc' = "opened"
    /\ UNCHANGED <<usizeBits, text, opts, env, built, toolRes, datFile, fsCalls, rec>>
    /\ UNCHANGED codecVars
    /\ UNCHANGED readerVars
    /\ UNCHANGED engineVars
    /\ UNCHANGED scanVars
    /\ UNCHANGED rngVars

\* record_bytes(index) of the opened file, for an index in range or one of the
\* first two out of range
ReadRecord ==
    /\ pc = "opened" /\ opened.tag = "ok"
    /\ \E index \in 0..(record_count(opened.db) + 1) :
          rec' = [index |-> index, span |-> span(opened.db, index),
                  res |-> record_bytes(opened.db, index)]
    /\ pc' = "read"
    /\ UNCHANGED <<usizeBits, text, opts, env, built, toolRes, datFile, fsCalls, opened>>
    /\ UNCHANGED codecVars
    /\ UNCHANGED readerVars
    /\ UNCHANGED engineVars
    /\ UNCHANGED scanVars
    /\ UNCHANGED rngVars

NextTool == RunStrfile \/ Open \/ ReadRecord

SpecTool == InitTool /\ [][NextTool]_vars

\* ------------------------------------------------------------------------
\* The reader on any index
\* ------------------------------------------------------------------------

\* Indexes for a corpus, well-formed or not: offsets anywhere from 0 to one
\* byte past the end, in any order, with repeats.
IndexesFor(t) ==
    {DatFile(DatHeader(STRFILE_VERSION, Len(o), 0, 0, 0, d), o) :
        d \in Delimiters, o \in SeqsUpTo(0..(Len(t) + 1), MaxOffsets)}

\* The index file of a corpus: the encoding of such an index, or none.
IndexFileOf(idx) == [exists |-> TRUE, bytes |-> to_bytes(idx).bytes]

Filters ==
    {AnyLength} \cup {LengthFilter(k, th) : k \in {"Short", "Long"}, th \in 0..2}

InitReader ==
    /\ pc = "closed"
    /\ usizeBits = 64
    /\ text \in SeqsUpTo(TextBytes, MaxLen - 1)
    /\ \/ x \in IndexesFor(text) /\ datFile = IndexFileOf(x)
       \/ x = NoDat /\ datFile = NoFile
    /\ opts = DefaultOptions /\ env = NoEnv
    /\ buf = <<>>
    /\ enc = NoBytes /\ rt = NoDecode /\ dec = NoDecode /\ dec2 = NoDecode
    /\ built = NoBuild /\ toolRes = "none"
    /\ fsCalls = <<>>
    /\ opened = NoOpen /\ rec = NoRec
    /\ filter = AnyLength /\ cands = NoCands
    /\ NoEngine
    /\ NoScanRun /\ NoRngRun

\* candidate_indices(filter) of the opened file
CandidateIndices ==
    /\ pc = "opened" /\ opened.tag = "ok"
    /\ \E f \in Filters :
          /\ filter' = f
          /\ cands' = candidate_indices(opened.db, f)
    /\ pc' = "listed"
    /\ UNCHANGED <<usizeBits, toolRes, datFile, fsCalls>>
    /\ UNCHANGED codecVars
    /\ UNCHANGED toolVars
    /\ UNCHANGED engineVars
    /\ UNCHANGED scanVars
    /\ UNCHANGED rngVars

NextReader == Open \/ ReadRecord \/ CandidateIndices

SpecReader == InitReader /\ [][NextReader]_vars

\* ------------------------------------------------------------------------
\* The selection engine on loaded sources
\* ------------------------------------------------------------------------

MaxSources == 3

Paths == {"alpha", "beta", "gamma"}

\* The corpus at a path: three records, two records, one record.
CorpusAt(path) ==
    CASE path = "alpha" -> OneTwoThree
      [] path = "beta" -> AlphaBeta
      [] OTHER -> <<97, NL>>

\* Every corpus with the index strfile builds for it.
Disk ==
    [path \in Paths |->
        [text |-> [exists |-> TRUE, bytes |-> CorpusAt(path)],
         dat |-> IndexFileOf(build_dat_from_text(CorpusAt(path), DefaultOptions,
                                                 NoEnv, <<>>).dat)]]

\* Explicit percents: none, 0, 40 or 100.
Percents == {NoPercent} \cup {Percent(FFromInt(n)) : n \in {0, 40, 100}}

\* Lists of at most n sources at distinct paths, in any order.
RECURSIVE SourceLists(_)
SourceLists(n) ==
    IF n = 0 THEN {<<>>}
    ELSE SourceLists(n - 1)
         \cup {Append(l, WeightedSource(path, pct)) :
                 l \in {q \in SourceLists(n - 1) : Len(q) = n - 1},
                 path \in Paths, pct \in Percents}

DistinctPaths(l) == \A i, j \in 1..Len(l) : l[i].path = l[j].path => i = j

\* The filters of the engine run: every record, the short ones, the long ones.
EngineFilters == {AnyLength, LengthFilter("Short", 5), LengthFilter("Long", 5)}

\* Raw draws: 0, 1, 2^63 and u64::MAX.
Raws == {U64(0), U64(1), <<LIMB \div 2, 0, 0, 0>>, U64_MAX}

\* 2^64 - 2048, the raw draw of the largest unit value below 1.
NearOne == <<LIMB - 1, LIMB - 1, LIMB - 1, LIMB - 2048>>

\* Three sources given with the percents "4.18" and "95.82" and none.
TwoDecimals ==
    <<WeightedSource("alpha", Percent(FDiv(FFromInt(418), Hundred))),
      WeightedSource("beta", Percent(FDiv(FFromInt(9582), Hundred))),
      WeightedSource("gamma", NoPercent)>>

\* A generator of hard-coded values, or one that yields a first and a second
\* value.
Generators ==
    {Rng("HardCoded", <<v>>, 0) : v \in Raws \cup {NearOne}}
    \cup {Rng("HardCoded", <<U64(0), U64(1)>>, 0), Rng("HardCoded", <<U64_MAX, U64(1)>>, 0)}
    \cup {Rng("Thread", <<v, w>>, 0) : v \in Raws, w \in {U64(0)}}

\* Probability lists handed to select_random_fortune by a caller other than
\* main: empty, zero, negative or not what calculate_probabilities gave.
WeightLists ==
    {<<>>, <<FZero>>, <<Hundred>>, <<FZero, FZero>>, <<Hundred, FZero>>,
     <<FNeg(Hundred), Hundred>>}

\* The build has a usize of 64 bits, or of 32 bits for the runs on at most one
\* source without a length filter.
InitEngine ==
    /\ pc = "engine"
    /\ usizeBits \in {32, 64}
    /\ discovered \in {l \in SourceLists(MaxSources) : DistinctPaths(l)} \cup {TwoDecimals}
    /\ filter \in EngineFilters
    /\ equalProb \in BOOLEAN
    /\ usizeBits = 32 => (Len(discovered) <= 1 /\ filter = AnyLength /\ ~equalProb)
    /\ entries = NoLoad /\ probs = NoProbs /\ sel = NoSel
    /\ text = <<>> /\ opts = DefaultOptions /\ env = NoEnv
    /\ x = NoDat /\ buf = <<>>
    /\ enc = NoBytes /\ rt = NoDecode /\ dec = NoDecode /\ dec2 = NoDecode
    /\ built = NoBuild /\ toolRes = "none"
    /\ datFile = NoFile /\ fsCalls = <<>>
    /\ opened = NoOpen /\ rec = NoRec
    /\ cands = NoCands
    /\ NoScanRun /\ NoRngRun

engineRest ==
    <<usizeBits, toolRes, datFile, fsCalls, filter, cands, discovered, equalProb>>

\* load_sources(discovered, filter)
LoadSources ==
    /\ pc = "engine"
    /\ entries' = load_sources(discovered, Disk, filter, usizeBits)
    /\ pc' = "loaded"
    /\ UNCHANGED <<probs, sel>>
    /\ UNCHANGED engineRest
    /\ UNCHANGED scanVars
    /\ UNCHANGED rngVars
    /\ UNCHANGED codecVars
    /\ UNCHANGED toolVars

\* calculate_probabilities(loaded, equal_prob)
CalculateProbabilities ==
    /\ pc = "loaded" /\ entries.tag = "ok"
    /\ probs' = calculate_probabilities(entries.out, equalProb)
    /\ pc' = "weighed"
    /\ UNCHANGED <<entries, sel>>
    /\ UNCHANGED engineRest
    /\ UNCHANGED scanVars
    /\ UNCHANGED rngVars
    /\ UNCHANGED codecVars
    /\ UNCHANGED toolVars

SelectCall(es, ps, g) ==
    [entries |-> es, probabilities |-> ps, rng |-> g,
     res |-> select_random_fortune(es, ps, g, usizeBits)]

\* select_random_fortune(loaded, probabilities, rng) as main calls it
Select ==
    /\ pc = "weighed" /\ probs.tag = "ok"
    /\ \E g \in Generators : sel' = SelectCall(entries.out, probs.out, g)
    /\ pc' = "selected"
    /\ UNCHANGED <<entries, probs>>
    /\ UNCHANGED engineRest
    /\ UNCHANGED scanVars
    /\ UNCHANGED rngVars
    /\ UNCHANGED codecVars
    /\ UNCHANGED toolVars

\* select_random_fortune on the first k loaded sources and any probability
\* list, for the sources given without a percent and loaded without a length
\* filter
SelectWith ==
    /\ pc = "weighed" /\ filter = AnyLength /\ ~equalProb
    /\ \A k \in 1..Len(discovered) : ~discovered[k].explicit_percent.some
    /\ \E k \in 0..Len(entries.out), ps \in WeightLists,
          g \in {Rng("HardCoded", <<v>>, 0) : v \in {U64(0), U64_MAX}} :
          sel' = SelectCall(SubSeq(entries.out, 1, k), ps, g)
    /\ pc' = "selected"
    /\ UNCHANGED <<entries, probs>>
    /\ UNCHANGED engineRest
    /\ UNCHANGED scanVars
    /\ UNCHANGED rngVars
    /\ UNCHANGED codecVars
    /\ UNCHANGED toolVars

\* What a Seeded or Thread generator may yield in a second run.
RerunStreams == {<<U64_MAX, U64(1)>>}

\* A second run of the program on the same sources, with the same hard-coded
\* values in its environment: from_env, then select_random_fortune
SelectAgain ==
    /\ pc = "selected" /\ probs.tag = "ok" /\ filter = AnyLength
    /\ sel.entries = entries.out /\ sel.probabilities = probs.out
    /\ sel.rng.mode = "HardCoded"
    /\ \E s \in BOOLEAN, stream \in RerunStreams :
          \E g \in {from_env(Env("list", sel.rng.values, s), stream)} :
             /\ g.tag = "ok"
             /\ rerun' = SelectCall(sel.entries, sel.probabilities, g.rng)
    /\ pc' = "reselected"
    /\ UNCHANGED <<entries, probs, sel, pattern, matches>>
    /\ UNCHANGED engineRest
    /\ UNCHANGED rngVars
    /\ UNCHANGED codecVars
    /\ UNCHANGED toolVars

\* The patterns of a run with -m: the literals "", "e", "T", "tw", and "T"
\* with -i.
Patterns ==
    {Regex(l, FALSE) : l \in {<<>>, <<101>>, <<84>>, <<116, 119>>}}
    \cup {Regex(<<84>>, TRUE)}

\* A run of main with -m, from the result of calculate_probabilities on:
\* the error returned, or else collect_matches on the loaded sources
CollectMatches ==
    /\ pc = "weighed"
    /\ \E re \in Patterns :
          /\ pattern' = [some |-> TRUE, lit |-> re.lit, ignore_case |-> re.ignore_case]
          /\ matches' = IF probs.tag = "ok" THEN collect_matches(entries.out, re)
                        ELSE MatchErr(probs.tag, probs.err)
    /\ pc' = "scanned"
    /\ UNCHANGED <<entries, probs, sel, rerun>>
    /\ UNCHANGED engineRest
    /\ UNCHANGED rngVars
    /\ UNCHANGED codecVars
    /\ UNCHANGED toolVars

NextEngine ==
    \/ LoadSources \/ CalculateProbabilities \/ Select \/ SelectWith \/ SelectAgain
    \/ CollectMatches

SpecEngine == InitEngine /\ [][NextEngine]_vars

\* ------------------------------------------------------------------------
\* The generator run: from_env, then calls of next_u64 and next_index
\* ------------------------------------------------------------------------

MaxHardLen == 3
MaxCalls == 3

\* Characters of the short texts: '1', '2', ',', ';', ' ', '+', 'x'.
HardChars == {49, 50, COMMA, SEMICOLON, 32, PLUS, 120}

\* Texts with values that need more than 32 bits: "4294967297" (2^32 + 1),
\* "4294967297 1", "6442450944,4294967297" (3 * 2^31, 2^32 + 1),
\* "18446744073709551615" (u64::MAX) and "18446744073709551616".
LongTexts ==
    {<<52, 50, 57, 52, 57, 54, 55, 50, 57, 55>>,
     <<52, 50, 57, 52, 57, 54, 55, 50, 57, 55, 32, 49>>,
     <<54, 52, 52, 50, 52, 53, 48, 57, 52, 52, 44, 52, 50, 57, 52, 57, 54, 55, 50, 57, 55>>,
     <<49, 56, 52, 52, 54, 55, 52, 52, 48, 55, 51, 55, 48, 57, 53, 53, 49, 54, 49, 53>>,
     <<49, 56, 52, 52, 54, 55, 52, 52, 48, 55, 51, 55, 48, 57, 53, 53, 49, 54, 49, 54>>}

\* FORTUNE_MOD_RAND_HARD_CODED_VALS: unset, or set to a text.
HardVars ==
    {[set |-> FALSE, raw |-> <<>>]}
    \cup {[set |-> TRUE, raw |-> t] : t \in SeqsUpTo(HardChars, MaxHardLen) \cup LongTexts}

\* What a Seeded or Thread generator yields: 2^32 + 1, u64::MAX, 2^32 + 1, ...
\* or 5, 3 * 2^31, 5, ...
RngStreams ==
    {[k \in 1..MaxCalls |-> IF k % 2 = 1 THEN <<0, 1, 0, 1>> ELSE U64_MAX],
     [k \in 1..MaxCalls |-> IF k % 2 = 1 THEN U64(5) ELSE <<0, 1, LIMB \div 2, 0>>]}

\* The upper bounds handed to next_index.
Uppers == {0, 2, 3}

InitRng ==
    /\ pc = "env"
    /\ usizeBits \in {32, 64}
    /\ hardRaw \in HardVars
    /\ env \in {Env("unset", <<>>, srand) : srand \in BOOLEAN}
    /\ gen = NoRng /\ drawn = <<>>
    /\ text = <<>> /\ opts = DefaultOptions
    /\ x = NoDat /\ buf = <<>>
    /\ enc = NoBytes /\ rt = NoDecode /\ dec = NoDecode /\ dec2 = NoDecode
    /\ built = NoBuild /\ toolRes = "none"
    /\ datFile = NoFile /\ fsCalls = <<>>
    /\ opened = NoOpen /\ rec = NoRec
    /\ filter = AnyLength /\ cands = NoCands
    /\ NoEngine
    /\ NoScanRun

rngRest ==
    <<usizeBits, hardRaw, text, opts, x, buf, enc, rt, dec, dec2, built, toolRes,
      datFile, fsCalls, opened, rec, filter, cands>>

\* FortuneRng::from_env()
FromEnv ==
    /\ pc = "env"
    /\ env' = env_of(hardRaw, env.srand)
    /\ \E stream \in RngStreams :
          \E r \in {from_env(env_of(hardRaw, env.srand), stream)} :
             /\ gen' = r.rng
             /\ pc' = IF r.tag = "ok" THEN "ready" ELSE "failed"
    /\ UNCHANGED drawn
    /\ UNCHANGED rngRest
    /\ UNCHANGED engineVars
    /\ UNCHANGED scanVars

Call(op, upper, value) == [op |-> op, upper |-> upper, value |-> value]

\* rng.next_u64()
NextU64 ==
    /\ pc = "ready" /\ Len(drawn) < MaxCalls
    /\ \E r \in {next_u64(gen)} :
          /\ gen' = r.rng
          /\ drawn' = Append(drawn, Call("next_u64", 0, r.value))
    /\ UNCHANGED <<pc, env>>
    /\ UNCHANGED rngRest
    /\ UNCHANGED engineVars
    /\ UNCHANGED scanVars

\* rng.next_index(upper)
NextIndex ==
    /\ pc = "ready" /\ Len(drawn) < MaxCalls
    /\ \E upper \in Uppers :
          \E r \in {next_index_usize(gen, upper, usizeBits)} :
             /\ gen' = r.rng
             /\ drawn' = Append(drawn, Call("next_index", upper, r.value))
    /\ UNCHANGED <<pc, env>>
    /\ UNCHANGED rngRest
    /\ UNCHANGED engineVars
    /\ UNCHANGED scanVars

NextRng == FromEnv \/ NextU64 \/ NextIndex

SpecRng == InitRng /\ [][NextRng]_vars

Init == InitCodec \/ InitTool

Next == NextCodec \/ NextTool

Spec == Init /\ [][Next]_vars

\* ------------------------------------------------------------------------
\* Properties of the index codec (checked under SpecCodec)
\* ------------------------------------------------------------------------

\* The u32 that four bytes of b from byte o on spell, most significant first.
BigEndianAt(b, o) ==
    At(b, o) * 16777216 + At(b, o + 1) * 65536 + At(b, o + 2) * 256 + At(b, o + 3)

ValidIndex(d) == d.header.numstr = Len(d.offsets)

\* C1: for every index x whose numstr is the number of its offsets, whatever
\* its version, lengths, flags, delimiter and the order of its offsets,
\* to_bytes(x) succeeds, and read_from_bytes of the bytes succeeds and returns
\* x field for field.
C1_RoundTrip ==
    /\ (pc \in {"encoded", "roundtrip"} /\ ValidIndex(x)) => enc.tag = "ok"
    /\ (pc = "roundtrip" /\ ValidIndex(x)) =>
          /\ rt.tag = "ok"
          /\ rt.dat.header = x.header
          /\ rt.dat.offsets = x.offsets

C1_Witness ==
    /\ pc = "roundtrip"
    /\ x.offsets = <<12, 0>>
    /\ x.header.flags = STR_ROTATED + STR_RANDOM
    /\ x.header.version # STRFILE_VERSION
    /\ rt.tag = "ok" /\ rt.dat = x

\* Whether the table that the header of b declares is longer than b holds.
TableMissing(b) == BigEndianAt(b, 4) > (Len(b) - HEADER_BYTES) \div 4

\* Whether 24 + 4 * numstr is more than a usize of the given width holds:
\* only for 32 bits, from numstr = 1073741818 on.
SizeOverflows(b, bits) == bits = 32 /\ BigEndianAt(b, 4) > 1073741817

\* C5: read_from_bytes fails for every buffer shorter than 24 bytes and for
\* every buffer shorter than 24 + 4 * numstr or whose size computation
\* overflows; it succeeds for every other buffer; it never indexes or slices
\* outside the buffer.
C5_DecodeFailsExactly ==
    pc \in {"decoded", "repadded"} =>
        /\ dec.tag \in {"ok", "err"}
        /\ (dec.tag = "err") <=>
              (\/ Len(buf) < HEADER_BYTES
               \/ TableMissing(buf)
               \/ SizeOverflows(buf, usizeBits))

C5_Witness ==
    /\ pc = "decoded"
    /\ Len(buf) = HEADER_BYTES + 7
    /\ BigEndianAt(buf, 4) = 2
    /\ dec.tag = "err"

\* C6: to_bytes returns exactly 24 + 4 * numstr bytes: version, numstr,
\* longlen, shortlen and flags big-endian at bytes 0, 4, 8, 12 and 16, the
\* delimiter at byte 20, zeros at bytes 21..23, then the offsets in order,
\* big-endian, from byte 24. read_from_bytes reads exactly numstr offsets from
\* byte 24 on, and returns the same whatever the bytes 21..23 are.
C6_Layout ==
    /\ (pc \in {"encoded", "roundtrip"} /\ enc.tag = "ok") =>
          /\ Len(enc.bytes) = HEADER_BYTES + 4 * x.header.numstr
          /\ \A k \in 1..Len(enc.bytes) : enc.bytes[k] \in 0..255
          /\ BigEndianAt(enc.bytes, 0) = x.header.version
          /\ BigEndianAt(enc.bytes, 4) = x.header.numstr
          /\ BigEndianAt(enc.bytes, 8) = x.header.longlen
          /\ BigEndianAt(enc.bytes, 12) = x.header.shortlen
          /\ BigEndianAt(enc.bytes, 16) = x.header.flags
          /\ At(enc.bytes, 20) = x.header.delim
          /\ \A i \in 21..23 : At(enc.bytes, i) = 0
          /\ \A k \in 1..Len(x.offsets) :
                BigEndianAt(enc.bytes, HEADER_BYTES + 4 * (k - 1)) = x.offsets[k]
    /\ (pc \in {"decoded", "repadded"} /\ dec.tag = "ok") =>
          /\ Len(dec.dat.offsets) = dec.dat.header.numstr
          /\ dec.dat.header.numstr = BigEndianAt(buf, 4)
          /\ dec.dat.header.delim = At(buf, 20)
          /\ \A k \in 1..Len(dec.dat.offsets) :
                dec.dat.offsets[k] = BigEndianAt(buf, HEADER_BYTES + 4 * (k - 1))
    /\ pc = "repadded" => dec2 = dec

C6_Witness ==
    /\ pc = "repadded"
    /\ dec.tag = "ok"
    /\ Len(dec.dat.offsets) = 2
    /\ Len(buf) > HEADER_BYTES + 8
    /\ <<At(buf, 21), At(buf, 22), At(buf, 23)>> # <<0, 0, 0>>
    /\ dec.dat.offsets = <<258, 0>>
    /\ dec2 = dec

\* ------------------------------------------------------------------------
\* Properties of writing the index (checked under Spec)
\* ------------------------------------------------------------------------

\* C7: an index is never partially written. to_bytes fails as a whole, with no
\* bytes, when numstr is not the number of offsets; write_to_path hands the
\* destination one buffer, the complete encoding, and only when to_bytes
\* succeeded; when to_bytes fails, or when the build fails in the strfile run,
\* nothing is written and the destination is as it was.
C7_NoPartialWrite ==
    /\ Len(fsCalls) <= 1
    /\ pc \in {"encoded", "roundtrip"} =>
          /\ ~ValidIndex(x) => enc.tag = "err"
          /\ enc.tag = "err" => enc.bytes = <<>>
    /\ pc = "written" =>
          IF ~ValidIndex(x)
          THEN toolRes = "err" /\ fsCalls = <<>> /\ datFile = NoFile
          ELSE /\ fsCalls = <<to_bytes(x).bytes>>
               /\ Len(fsCalls[1]) = HEADER_BYTES + 4 * Len(x.offsets)
               /\ toolRes = "ok" => datFile = [exists |-> TRUE, bytes |-> fsCalls[1]]
    /\ pc \in {"built", "opened", "read"} =>
          IF built.tag # "ok"
          THEN toolRes = "err" /\ fsCalls = <<>> /\ datFile = NoFile
          ELSE /\ fsCalls = <<to_bytes(built.dat).bytes>>
               /\ Len(fsCalls[1]) = HEADER_BYTES + 4 * Len(built.dat.offsets)
               /\ toolRes = "ok" => datFile = [exists |-> TRUE, bytes |-> fsCalls[1]]

C7_Witness ==
    /\ pc = "written"
    /\ x.header.numstr = 1 /\ Len(x.offsets) = 2
    /\ toolRes = "err"
    /\ fsCalls = <<>>
    /\ datFile = NoFile

\* ------------------------------------------------------------------------
\* Properties of the segmenters and the builder (checked under SpecTool)
\* ------------------------------------------------------------------------

\* The lines of a buffer, told without a scan: a line starts at byte 0 and
\* after every newline, and ends before the next newline or at the end of the
\* buffer.
LineStarts(t) == {p \in 0..(Len(t) - 1) : p = 0 \/ At(t, p - 1) = NL}

LineEnd(t, p) == Min({q \in p..(Len(t) - 1) : At(t, q) = NL} \cup {Len(t)})

\* Whether the line from p ends with \r\n.
EndsCrLf(t, p) ==
    LineEnd(t, p) < Len(t) /\ LineEnd(t, p) > p /\ At(t, LineEnd(t, p) - 1) = CR

\* Whether the line from p has a carriage return as its last byte, be it
\* followed by a newline or by the end of the buffer.
EndsCr(t, p) == LineEnd(t, p) > p /\ At(t, LineEnd(t, p) - 1) = CR

\* The content of the line from p, without its last byte if strip.
LineContent(t, p, strip) ==
    Slice(t, p, IF strip THEN LineEnd(t, p) - 1 ELSE LineEnd(t, p))

\* A delimiter line, with the carriage return stripped exactly from lines that
\* end with \r\n.
StrictDelimiterLine(t, d, p) == LineContent(t, p, EndsCrLf(t, p)) = <<d>>

\* A delimiter line, with the carriage return stripped from every line whose
\* last byte it is.
DelimiterLine(t, d, p) == LineContent(t, p, EndsCr(t, p)) = <<d>>

DelimiterStarts(t, d) == {p \in LineStarts(t) : DelimiterLine(t, d, p)}

\* The byte after the newline of the line from p (the end of the buffer for a
\* line without one).
AfterLine(t, p) == IF LineEnd(t, p) < Len(t) THEN LineEnd(t, p) + 1 ELSE Len(t)

\* Where records begin: at byte 0 and after every delimiter line.
Boundaries(t, d) == {0} \cup {AfterLine(t, p) : p \in DelimiterStarts(t, d)}

\* The record from boundary b: up to the next delimiter line, or to the end.
SpanFrom(t, d, b) ==
    RecordSpan(b, Min({p \in DelimiterStarts(t, d) : p >= b} \cup {Len(t)}))

ExpectedSpans(t, d, allow_empty) ==
    {s \in {SpanFrom(t, d, b) : b \in Boundaries(t, d)} :
        allow_empty \/ s.start < s.end}

Ran == pc # "start" /\ built.tag # "none"

NoReorder == ~opts.order_offsets /\ ~opts.randomize_offsets

\* C2: the two segmenters agree. For every corpus, delimiter and allow_empty,
\* opening the corpus with the index built from it gives as many records as
\* the build segmented spans, and for every record the read-side scan from its
\* offset ends where the build-side span with that start ends, and
\* record_bytes returns the bytes of that span.
C2_SegmentersAgree ==
    /\ (pc \in {"opened", "read"} /\ toolRes = "ok") =>
          /\ opened.tag = "ok"
          /\ record_count(opened.db) = Len(built.spans)
          /\ \A k \in 1..Len(built.spans) :
                \E i \in 1..Len(built.dat.offsets) :
                   built.dat.offsets[i] = built.spans[k].start
    /\ (pc = "read" /\ toolRes = "ok" /\ rec.index < Len(built.dat.offsets)) =>
          \E k \in 1..Len(built.spans) :
             /\ built.spans[k].start = built.dat.offsets[rec.index + 1]
             /\ NoReorder => k = rec.index + 1
             /\ rec.span.tag = "ok"
             /\ rec.span.span = built.spans[k]
             /\ rec.res.tag = "ok"
             /\ rec.res.bytes = Slice(text, built.spans[k].start, built.spans[k].end)

C2_Witness ==
    /\ pc = "read"
    /\ toolRes = "ok"
    /\ NoReorder
    /\ text = OneTwoThree
    /\ opts.delimiter = PERCENT
    /\ rec.index = 1
    /\ rec.span.span = RecordSpan(6, 10)
    /\ rec.res.bytes = <<116, 119, 111, NL>>

\* C3: parse_record_spans scans from byte 0; each delimiter line at p closes
\* the span from the boundary to p and moves the boundary after the line's
\* newline; the bytes after the last delimiter line are a final span to the
\* end of the buffer; an empty span is emitted only with allow_empty. The
\* spans are in increasing order, disjoint and hold no delimiter line.
\* "one\n%\ntwo\n%\nthree\n" gives the three spans "one\n", "two\n", "three\n".
C3_Segment ==
    (pc # "start" /\ built.parsed) =>
        /\ {built.spans[k] : k \in 1..Len(built.spans)}
              = ExpectedSpans(text, opts.delimiter, opts.allow_empty)
        /\ \A k \in 1..(Len(built.spans) - 1) :
              /\ built.spans[k].start < built.spans[k + 1].start
              /\ built.spans[k].end <= built.spans[k + 1].start
        /\ \A k \in 1..Len(built.spans) :
              /\ built.spans[k].start <= built.spans[k].end
              /\ built.spans[k].end <= Len(text)
              /\ ~opts.allow_empty => built.spans[k].start < built.spans[k].end
              /\ \A p \in DelimiterStarts(text, opts.delimiter) :
                    ~(built.spans[k].start <= p /\ p < built.spans[k].end)
        /\ (text = OneTwoThree /\ opts.delimiter = PERCENT /\ ~opts.allow_empty) =>
              built.spans = <<RecordSpan(0, 4), RecordSpan(6, 10), RecordSpan(12, 18)>>

C3_Witness ==
    /\ pc = "built"
    /\ built.parsed
    /\ text = OneTwoThree
    /\ opts.delimiter = PERCENT
    /\ ~opts.allow_empty
    /\ Len(built.spans) = 3

\* C4 as stated: in the build-side and in the read-side scan a line is taken
\* for a delimiter line exactly if its content, with one trailing \r stripped
\* exactly when the line ends with \r\n, is the delimiter byte alone.
C4_StrictCrLf ==
    /\ pc # "start" =>
          \A k \in 1..Len(built.lines) :
             built.lines[k].delim
                = StrictDelimiterLine(text, opts.delimiter, built.lines[k].at)
    /\ pc = "read" =>
          \A k \in 1..Len(rec.span.lines) :
             rec.span.lines[k].delim
                = StrictDelimiterLine(opened.db.bytes, opened.db.dat.header.delim,
                                      rec.span.lines[k].at)

\* C4: in the build-side and in the read-side scan a line is taken for a
\* delimiter line exactly if its content, with one trailing \r stripped
\* whether a newline or the end of the buffer follows it, is the delimiter
\* byte alone; the build-side scan visits every line of the corpus, and no
\* line with longer content, another byte or no content closes a record.
C4_DelimiterLine ==
    /\ (pc # "start" /\ built.parsed) =>
          {built.lines[k].at : k \in 1..Len(built.lines)} = LineStarts(text)
    /\ pc # "start" =>
          \A k \in 1..Len(built.lines) :
             built.lines[k].delim
                = DelimiterLine(text, opts.delimiter, built.lines[k].at)
    /\ pc = "read" =>
          \A k \in 1..Len(rec.span.lines) :
             rec.span.lines[k].delim
                = DelimiterLine(opened.db.bytes, opened.db.dat.header.delim,
                                rec.span.lines[k].at)

\* A corpus whose last line is the delimiter and a carriage return, with no
\* newline after it, read back: both scans took that line for a delimiter line.
C4_Witness ==
    /\ pc = "read"
    /\ text = <<97, NL, PERCENT, CR>>
    /\ opts.delimiter = PERCENT
    /\ built.lines = <<[at |-> 0, delim |-> FALSE], [at |-> 2, delim |-> TRUE]>>
    /\ rec.index = 0
    /\ rec.span.lines = <<[at |-> 0, delim |-> FALSE], [at |-> 2, delim |-> TRUE]>>
    /\ rec.res.bytes = <<97, NL>>

\* Whether the corpus is non-empty records joined by delimiter lines.
JoinedRecords(t, d) ==
    \A b \in Boundaries(t, d) : SpanFrom(t, d, b).start < SpanFrom(t, d, b).end

\* C8: for a corpus of n >= 1 non-empty records joined by delimiter lines, the
\* build without reordering returns record_count = n, n offsets, numstr = n,
\* version 2, and strictly increasing offsets of which the first is 0;
\* "alpha\n%\nbeta\n" gives the offsets 0, 8 and record count 2. numstr is the
\* number of offsets in every index built.
C8_BuildCounts ==
    /\ (Ran /\ built.tag = "ok") => built.dat.header.numstr = Len(built.dat.offsets)
    /\ (Ran /\ NoReorder /\ JoinedRecords(text, opts.delimiter)) =>
          /\ built.tag = "ok"
          /\ built.stats.record_count = Cardinality(Boundaries(text, opts.delimiter))
          /\ Len(built.dat.offsets) = Cardinality(Boundaries(text, opts.delimiter))
          /\ built.dat.header.numstr = Cardinality(Boundaries(text, opts.delimiter))
          /\ built.dat.header.version = 2
          /\ built.dat.offsets[1] = 0
          /\ \A k \in 1..(Len(built.dat.offsets) - 1) :
                built.dat.offsets[k] < built.dat.offsets[k + 1]
    /\ (Ran /\ NoReorder /\ text = AlphaBeta /\ opts.delimiter = PERCENT) =>
          /\ built.dat.offsets = <<0, 8>>
          /\ built.stats.record_count = 2

C8_Witness ==
    /\ pc = "built"
    /\ NoReorder
    /\ text = AlphaBeta
    /\ opts.delimiter = PERCENT
    /\ built.tag = "ok"
    /\ built.dat.offsets = <<0, 8>>

\* C9: build_dat_from_text with order_offsets and randomize_offsets both set
\* fails for every input, the empty one and those without records included,
\* before it segments anything and before a FortuneRng is made or drawn from.
C9_BothFlagsRejected ==
    (Ran /\ opts.order_offsets /\ opts.randomize_offsets) =>
        /\ built.tag = "err"
        /\ built.err = "--order and --random cannot be used together"
        /\ ~built.parsed
        /\ built.spans = <<>> /\ built.lines = <<>>
        /\ ~built.env_read
        /\ built.rng = NoRng
        /\ toolRes = "err"

C9_Witness ==
    /\ pc = "built"
    /\ opts.order_offsets /\ opts.randomize_offsets
    /\ text = OneTwoThree
    /\ env.hard = "list"
    /\ built.tag = "err"
    /\ ~built.parsed

\* Lexicographic order of byte strings, told without a recursion: a is a
\* prefix of b, or the two differ first at a byte where a's is less.
LexLeq(a, b) ==
    \/ Len(a) <= Len(b) /\ \A i \in 1..Len(a) : a[i] = b[i]
    \/ \E i \in 1..Len(a) :
          /\ i <= Len(b)
          /\ a[i] < b[i]
          /\ \A j \in 1..(i - 1) : a[j] = b[j]

\* The bytes of the record that starts at offset o.
ContentAt(t, spans, o) ==
    LET s == CHOOSE s \in {spans[k] : k \in 1..Len(spans)} : s.start = o
    IN  Slice(t, s.start, s.end)

\* What the same build returns without order_offsets.
Unordered == build_dat_from_text(text, [opts EXCEPT !.order_offsets = FALSE], env, <<>>)

\* C10: with order_offsets the offsets are a permutation of those built
\* without reordering, the contents of their records are lexicographically
\* non-decreasing, records of equal content keep their corpus order, flags is
\* ORDERED (0x2), and numstr, longlen and shortlen are as without reordering.
C10_Ordered ==
    (Ran /\ opts.order_offsets /\ ~opts.randomize_offsets /\ built.parsed) =>
        /\ built.tag = Unordered.tag
        /\ built.tag = "ok" =>
              /\ Len(built.dat.offsets) = Len(Unordered.dat.offsets)
              /\ \A i \in 1..Len(Unordered.dat.offsets) :
                    Cardinality({k \in 1..Len(built.dat.offsets) :
                                    built.dat.offsets[k] = Unordered.dat.offsets[i]}) = 1
              /\ \A k \in 1..Len(built.dat.offsets), j \in 1..Len(built.dat.offsets) :
                    k < j =>
                       /\ LexLeq(ContentAt(text, built.spans, built.dat.offsets[k]),
                                 ContentAt(text, built.spans, built.dat.offsets[j]))
                       /\ ContentAt(text, built.spans, built.dat.offsets[k])
                             = ContentAt(text, built.spans, built.dat.offsets[j])
                          => built.dat.offsets[k] < built.dat.offsets[j]
              /\ built.dat.header.flags = 2
              /\ built.dat.header.numstr = Unordered.dat.header.numstr
              /\ built.dat.header.longlen = Unordered.dat.header.longlen
              /\ built.dat.header.shortlen = Unordered.dat.header.shortlen

\* Three records, the last two empty: sorted before the first, in corpus order.
C10_Witness ==
    /\ pc = "built"
    /\ opts.order_offsets
    /\ opts.allow_empty
    /\ opts.delimiter = PERCENT
    /\ text = <<NL, PERCENT, NL, PERCENT>>
    /\ built.tag = "ok"
    /\ built.dat.offsets = <<3, 4, 0>>

\* What the same build returns without randomize_offsets.
Unshuffled ==
    build_dat_from_text(text, [opts EXCEPT !.randomize_offsets = FALSE], NoEnv, <<>>)

\* The k-th value (from 0) a generator yields: a HardCoded one cycles through
\* its list.
DrawnValue(r, k) ==
    IF r.mode = "HardCoded" THEN r.values[(k % Len(r.values)) + 1] ELSE r.values[k + 1]

\* The offsets after t Fisher-Yates steps on items: step t exchanges
\* i = n - t with j = (the t-th value drawn) mod (i + 1).
RECURSIVE FisherYatesAfter(_, _, _)
FisherYatesAfter(items, r, t) ==
    IF t = 0 THEN items
    ELSE LET before == FisherYatesAfter(items, r, t - 1)
             i == Len(items) - t
             j == U64Mod(DrawnValue(r, t - 1), i + 1)
         IN  [k \in 1..Len(items) |->
                 IF k = i + 1 THEN before[j + 1]
                 ELSE IF k = j + 1 THEN before[i + 1]
                 ELSE before[k]]

\* C11: with randomize_offsets, whatever values the generator yields, the
\* offsets are a permutation of those built without reordering, the one the
\* Fisher-Yates steps i = n-1 down to 1 with j = next_index(i + 1) and
\* swap(i, j) give, with one value drawn per step; flags is RANDOM (0x1) and
\* numstr, longlen and shortlen are as without reordering.
C11_Shuffled ==
    (Ran /\ opts.randomize_offsets /\ ~opts.order_offsets /\ built.tag = "ok") =>
        /\ Unshuffled.tag = "ok"
        /\ Len(built.dat.offsets) = Len(Unshuffled.dat.offsets)
        /\ \A i \in 1..Len(Unshuffled.dat.offsets) :
              Cardinality({k \in 1..Len(built.dat.offsets) :
                              built.dat.offsets[k] = Unshuffled.dat.offsets[i]}) = 1
        /\ built.rng.index = Len(built.dat.offsets) - 1
        /\ built.dat.offsets
              = FisherYatesAfter(Unshuffled.dat.offsets, built.rng,
                                 Len(built.dat.offsets) - 1)
        /\ built.dat.header.flags = 1
        /\ built.dat.header.numstr = Unshuffled.dat.header.numstr
        /\ built.dat.header.longlen = Unshuffled.dat.header.longlen
        /\ built.dat.header.shortlen = Unshuffled.dat.header.shortlen

\* "one\n%\ntwo\n%\nthree\n" shuffled with the values 1, 0: swap(2, 1), then
\* swap(1, 0).
C11_Witness ==
    /\ pc = "built"
    /\ opts.randomize_offsets
    /\ text = OneTwoThree
    /\ opts.delimiter = PERCENT
    /\ env.hard = "list"
    /\ built.tag = "ok"
    /\ built.rng.index = 2
    /\ built.dat.offsets = <<12, 0, 6>>

\* ------------------------------------------------------------------------
\* Properties of the reader on any index (checked under SpecReader)
\* ------------------------------------------------------------------------

\* Whether the index file holds the encoding of x.
IndexDecodes == datFile.exists /\ read_from_bytes(datFile.bytes, usizeBits).tag = "ok"

\* C12: open of a corpus whose index decodes succeeds exactly if every offset
\* of the index is at most the length of the text; an offset equal to the
\* length is accepted and is an empty record; an offset beyond it makes open
\* fail.
C12_OpenValidates ==
    /\ (pc # "closed" /\ IndexDecodes) =>
          /\ read_from_bytes(datFile.bytes, usizeBits).dat = x
          /\ (opened.tag = "ok") <=> (\A k \in 1..Len(x.offsets) : x.offsets[k] <= Len(text))
          /\ opened.tag \in {"ok", "err"}
          /\ opened.tag = "ok" => opened.db = FortuneFile(x, text)
          /\ opened.tag = "err" => opened.err = "offset is out of range"
    /\ (pc = "read" /\ rec.index < Len(x.offsets)) =>
          (x.offsets[rec.index + 1] = Len(text) =>
              /\ rec.span.tag = "ok"
              /\ rec.span.span = RecordSpan(Len(text), Len(text))
              /\ rec.res.tag = "ok"
              /\ rec.res.bytes = <<>>)

C12_Witness ==
    /\ pc = "read"
    /\ text = <<97, NL>>
    /\ x.offsets = <<2, 0>>
    /\ opened.tag = "ok"
    /\ rec.index = 0
    /\ rec.res.tag = "ok"
    /\ rec.res.bytes = <<>>

\* C13: for any text and any index with which open succeeded, record_bytes(i)
\* succeeds for every i below the record count, with a span that satisfies
\* start <= end <= length of the text and a slice inside the buffer, never the
\* inverted-span error and never an access out of range; for every i from the
\* record count on it fails with the out-of-range error.
C13_RecordBytesSafe ==
    pc = "read" =>
        IF rec.index < record_count(opened.db)
        THEN /\ rec.span.tag = "ok"
             /\ rec.span.span.start = opened.db.dat.offsets[rec.index + 1]
             /\ rec.span.span.start <= rec.span.span.end
             /\ rec.span.span.end <= Len(opened.db.bytes)
             /\ rec.res.tag = "ok"
             /\ \E hi \in rec.span.span.start..rec.span.span.end :
                   rec.res.bytes = Slice(opened.db.bytes, rec.span.span.start, hi)
        ELSE /\ rec.span.tag = "err"
             /\ rec.res.tag = "err"
             /\ rec.res.err = "record index out of range"

\* An index whose offsets are out of order and inside a line.
C13_Witness ==
    /\ pc = "read"
    /\ text = <<97, PERCENT, NL>>
    /\ opened.db.dat.offsets = <<3, 1>>
    /\ opened.db.dat.header.delim = PERCENT
    /\ rec.index = 1
    /\ rec.span.span = RecordSpan(1, 1)
    /\ rec.res.tag = "ok"

\* The bytes s with the carriage return before a final newline, or a final
\* carriage return, taken out.
CrTrimmed(s) ==
    IF Len(s) >= 2 /\ s[Len(s)] = NL /\ s[Len(s) - 1] = CR
    THEN SubSeq(s, 1, Len(s) - 2) \o <<NL>>
    ELSE IF Len(s) >= 1 /\ s[Len(s)] = CR
    THEN SubSeq(s, 1, Len(s) - 1)
    ELSE s

Passes(f, len) ==
    \/ f.kind = "Any"
    \/ f.kind = "Short" /\ len <= f.threshold
    \/ f.kind = "Long" /\ len > f.threshold

\* The result of candidate_indices as a set.
Listed(c) == {c.out[k] : k \in 1..Len(c.out)}

\* C15: candidate_indices returns, in ascending order and without repeats,
\* exactly the indices below the record count whose record_bytes length passes
\* the filter: all for Any, length <= threshold for Short, length > threshold
\* for Long; for every threshold the results for Short and Long are disjoint
\* and together are all indices; the index and the corpus stay as they were.
C15_Candidates ==
    pc = "listed" =>
        /\ cands.tag = "ok"
        /\ \A k \in 1..(Len(cands.out) - 1) : cands.out[k] < cands.out[k + 1]
        /\ Listed(cands)
              = {i \in 0..(record_count(opened.db) - 1) :
                    Passes(filter, Len(record_bytes(opened.db, i).bytes))}
        /\ filter.kind = "Any" => Len(cands.out) = record_count(opened.db)
        /\ filter.kind = "Short" =>
              /\ Listed(cands)
                    \cap Listed(candidate_indices(opened.db,
                                    LengthFilter("Long", filter.threshold))) = {}
              /\ Listed(cands)
                    \cup Listed(candidate_indices(opened.db,
                                    LengthFilter("Long", filter.threshold)))
                    = 0..(record_count(opened.db) - 1)
        /\ opened = open([exists |-> TRUE, bytes |-> text], datFile, usizeBits)

\* Records of 0 and 1 bytes under Short { 1 }: both pass, the boundary
\* included.
C15_Witness ==
    /\ pc = "listed"
    /\ text = <<97, NL, 97>>
    /\ opened.db.dat.offsets = <<3, 2>>
    /\ filter = LengthFilter("Short", 1)
    /\ cands.out = <<0, 1>>

\* ------------------------------------------------------------------------
\* calculate_probabilities
\* ------------------------------------------------------------------------

FAbs(a) == F64(0, a.m, a.e)

HasPercent(es, k) == es[k].explicit_percent.some

\* w: 1 under equal_prob, else the candidate count.
Weight(es, eq, k) == IF eq THEN One ELSE FFromInt(Len(es[k].candidate_indices))

\* The sum of the explicit percents.
ExplicitTotal(es) ==
    FSum([k \in 1..Len(es) |->
            IF HasPercent(es, k) THEN es[k].explicit_percent.p ELSE FZero])

\* The sum of w over the sources without an explicit percent.
TotalBase(es, eq) ==
    FSum([k \in 1..Len(es) |-> IF HasPercent(es, k) THEN FZero ELSE Weight(es, eq, k)])

Remaining(es) == FMax(FZero, FSub(Hundred, ExplicitTotal(es)))

Share(es, eq, k) ==
    IF HasPercent(es, k) THEN es[k].explicit_percent.p
    ELSE IF IsZero(TotalBase(es, eq)) THEN FZero
    ELSE FMul(Remaining(es), FDiv(Weight(es, eq, k), TotalBase(es, eq)))

SharesAsStated ==
    /\ Len(probs.out) = Len(entries.out)
    /\ \A k \in 1..Len(entries.out) : probs.out[k] = Share(entries.out, equalProb, k)

SomeWeighted ==
    \E k \in 1..Len(entries.out) :
        ~HasPercent(entries.out, k) /\ FGt(Weight(entries.out, equalProb, k), FZero)

ThreeAndTwo ==
    /\ Len(entries.out) = 2 /\ ~equalProb
    /\ ~HasPercent(entries.out, 1) /\ ~HasPercent(entries.out, 2)
    /\ Len(entries.out[1].candidate_indices) = 3
    /\ Len(entries.out[2].candidate_indices) = 2

SixtyForty == ThreeAndTwo => probs.out = <<FFromInt(60), FFromInt(40)>>

Weighed == pc = "weighed" /\ probs.tag = "ok"

\* 2^-40, far above the rounding of a sum of a few shares.
Rounding == F64(0, One.m, One.e - 40)

\* C16 as stated: the probabilities are the explicit percents and the shares
\* remaining * (w / total_base), they sum to exactly 100 whenever a source
\* without an explicit percent has w > 0, and 3 and 2 candidates give 60 and
\* 40.
C16_SumsToHundred ==
    Weighed =>
        /\ SharesAsStated
        /\ SomeWeighted => FSum(probs.out) = Hundred
        /\ SixtyForty

\* C16: the probabilities are the explicit percents and the shares
\* remaining * (w / total_base) as f64 arithmetic computes them; whenever a
\* source without an explicit percent has w > 0 they sum to 100 up to the
\* rounding of that arithmetic, and 3 and 2 candidates give exactly 60 and
\* 40.
C16_Shares ==
    Weighed =>
        /\ SharesAsStated
        /\ SomeWeighted => FLe(FAbs(FSub(FSum(probs.out), Hundred)), Rounding)
        /\ SixtyForty

\* One and two candidates without explicit percents: the two shares sum to
\* the f64 just below 100.
C16_Witness ==
    /\ Weighed /\ ~equalProb
    /\ Len(entries.out) = 2
    /\ ~HasPercent(entries.out, 1) /\ ~HasPercent(entries.out, 2)
    /\ Len(entries.out[1].candidate_indices) = 1
    /\ Len(entries.out[2].candidate_indices) = 2
    /\ FLt(FSum(probs.out), Hundred)

Called == pc = "weighed"

ExplicitOver == FGt(ExplicitTotal(entries.out), Hundred)

NonePositive ==
    \A k \in 1..Len(entries.out) : FLe(Share(entries.out, equalProb, k), FZero)

\* C17: calculate_probabilities fails, with no list, when the explicit
\* percents sum to more than 100 and when no resulting probability is above
\* 0; in every other case it returns one probability per source in the order
\* of the sources, none negative and at least one positive.
C17_FailsOrWeighs ==
    Called =>
        IF ExplicitOver \/ NonePositive
        THEN probs.tag = "err" /\ probs.out = <<>>
        ELSE /\ probs.tag = "ok"
             /\ SharesAsStated
             /\ \A k \in 1..Len(probs.out) : ~FLt(probs.out[k], FZero)
             /\ \E k \in 1..Len(probs.out) : FGt(probs.out[k], FZero)

\* Two sources that both carry an explicit 0 percent.
C17_Witness ==
    /\ Called
    /\ Len(entries.out) = 2
    /\ \A k \in 1..2 : HasPercent(entries.out, k) /\ IsZero(entries.out[k].explicit_percent.p)
    /\ probs.tag = "err"
    /\ probs.err = "computed source probabilities are all zero"

\* ------------------------------------------------------------------------
\* select_random_fortune
\* ------------------------------------------------------------------------

\* A call that got as far as choosing a source.
Chose == pc = "selected" /\ sel.res.chosen_idx # None

\* u of the call: the first value the generator yields, over 2^64.
UnitDrawn == FDiv(FFromU64(DrawnValue(sel.rng, 0)), F64(0, One.m, One.e + 64))

\* p_0 + ... + p_i, summed in order.
RunningTotal(i) == FSum(SubSeq(sel.probabilities, 1, i + 1))

Exceeding == {i \in 0..(Len(sel.probabilities) - 1) : FGt(RunningTotal(i), sel.res.marker)}

\* C18: the marker is u times the sum of the probabilities, and the chosen
\* source is the first in the order handed over whose running total of
\* probability exceeds the marker, or the last source when no running total
\* does.
C18_FirstExceeding ==
    Chose =>
        /\ sel.res.u = UnitDrawn
        /\ sel.res.marker = FMul(UnitDrawn, FSum(sel.probabilities))
        /\ IF Exceeding = {}
           THEN sel.res.chosen_idx = Len(sel.entries) - 1
           ELSE /\ sel.res.chosen_idx \in Exceeding
                /\ \A i \in Exceeding : sel.res.chosen_idx <= i

\* A draw of u = 1 over the probabilities 100 and 0: no running total
\* exceeds the marker 100, and the second source is chosen.
C18_Witness ==
    /\ Chose /\ sel.res.tag = "ok"
    /\ sel.probabilities = <<Hundred, FZero>>
    /\ sel.res.u = One
    /\ Exceeding = {}
    /\ sel.res.chosen_idx = 1

Returned == pc = "selected"

Unusable ==
    \/ Len(sel.entries) # Len(sel.probabilities)
    \/ FLe(FSum(sel.probabilities), FZero)

\* C19: select_random_fortune fails, with no selection, whenever the sources
\* and the probabilities differ in number or the probabilities sum to 0 or
\* less, zero sources with zero probabilities included.
C19_Rejects ==
    (Returned /\ Unusable) => (sel.res.tag = "err" /\ sel.res.selection = NoSelection)

\* No sources and no probabilities.
C19_Witness ==
    /\ Returned
    /\ sel.entries = <<>> /\ sel.probabilities = <<>>
    /\ sel.res.tag = "err"
    /\ sel.res.err = "total probability is zero"

ChosenSource == sel.entries[sel.res.chosen_idx + 1]

\* next_index(candidate_count) of the call: the second value the generator
\* yields, as a usize, modulo the count.
PositionDrawn ==
    U64Mod(as_usize(DrawnValue(sel.rng, 1), usizeBits),
           Len(ChosenSource.candidate_indices))

Reselected == pc = "reselected"

\* C21: a second run with the same hard-coded values, the same loaded sources
\* in the same order and the same probabilities returns the same source and
\* the same record index as the first, or fails as the first did.
C21_SameSelection ==
    Reselected =>
        /\ rerun.res.tag = sel.res.tag
        /\ rerun.res.selection.source_path = sel.res.selection.source_path
        /\ rerun.res.selection.record_index = sel.res.selection.record_index

\* The single value 0 with sources of 3 and 2 candidates.
C21_Witness ==
    /\ Reselected
    /\ sel.rng.values = <<U64(0)>>
    /\ Len(sel.entries) = 2
    /\ Len(sel.entries[1].candidate_indices) = 3
    /\ Len(sel.entries[2].candidate_indices) = 2
    /\ sel.res.tag = "ok" /\ rerun.res.tag = "ok"
    /\ rerun.res.selection.source_path = sel.entries[1].path

\* The call main makes: the loaded sources with the probabilities computed for
\* them.
MainCall ==
    /\ pc = "selected" /\ probs.tag = "ok"
    /\ sel.entries = entries.out /\ sel.probabilities = probs.out

NoPercents == \A k \in 1..Len(discovered) : ~discovered[k].explicit_percent.some

\* The sources of the end-to-end test: the given paths, no explicit percent,
\* no length filter.
TestRun(paths, value, eq) ==
    /\ MainCall /\ filter = AnyLength /\ NoPercents
    /\ [k \in 1..Len(discovered) |-> discovered[k].path] = paths
    /\ sel.rng = Rng("HardCoded", <<U64(value)>>, 0)
    /\ equalProb = eq

PicksAlpha(index) ==
    /\ sel.res.tag = "ok"
    /\ sel.res.selection.source_path = "alpha"
    /\ sel.res.selection.record_index = index

\* C22: with the three-record source alpha and the two-record source beta, the
\* value 0 selects record 1 of alpha, the value 1 under equal_prob selects
\* record 2 of alpha, and the value 0 with alpha alone selects record 1 of
\* alpha.
C22_TestSelections ==
    /\ TestRun(<<"alpha", "beta">>, 0, FALSE) => PicksAlpha(1)
    /\ TestRun(<<"alpha", "beta">>, 1, TRUE) => PicksAlpha(2)
    /\ TestRun(<<"alpha">>, 0, FALSE) => PicksAlpha(1)


\* ------------------------------------------------------------------------
\* The regex scan
\* ------------------------------------------------------------------------

Scanned == pc = "scanned" /\ matches.tag = "ok"

TheRegex == Regex(pattern.lit, pattern.ignore_case)

\* Where a path stands among the loaded sources.
SourceAt(path) == CHOOSE s \in 1..Len(entries.out) : entries.out[s].path = path

\* The candidates whose text the pattern matches: <<source, record index>>.
Candidates ==
    UNION {{<<s, entries.out[s].candidate_indices[k]>> :
               k \in 1..Len(entries.out[s].candidate_indices)} :
           s \in 1..Len(entries.out)}

MatchingCandidates ==
    {sc \in Candidates :
        is_match(TheRegex, record_text_lossy(entries.out[sc[1]].db, sc[2]).text)}

MatchOf(sc) ==
    MatchRecord(entries.out[sc[1]].path, sc[2],
                record_text_lossy(entries.out[sc[1]].db, sc[2]).text)

\* C23: the scan returns the matching candidate records and nothing else,
\* each of them once, the sources in the order they were given and the
\* records of a source by ascending index; no RandomSource is made or drawn from.
C23_MatchesInOrder ==
    Scanned =>
        /\ \A m \in 1..Len(matches.out) :
              \E sc \in MatchingCandidates : matches.out[m] = MatchOf(sc)
        /\ \A sc \in MatchingCandidates :
              Cardinality({m \in 1..Len(matches.out) : matches.out[m] = MatchOf(sc)}) = 1
        /\ \A m, n \in 1..Len(matches.out) :
              m < n =>
                 \/ SourceAt(matches.out[m].source_path) < SourceAt(matches.out[n].source_path)
                 \/ /\ matches.out[m].source_path = matches.out[n].source_path
                    /\ matches.out[m].record_index < matches.out[n].record_index
        /\ sel = NoSel /\ rerun = NoSel /\ gen = NoRng /\ drawn = <<>>

\* A scan of two sources that finds two records of the first and one of the
\* second, and leaves a candidate of the first out.
C23_Witness ==
    /\ Scanned
    /\ Len(entries.out) >= 2
    /\ Len(matches.out) = 3
    /\ matches.out[1].source_path = matches.out[2].source_path
    /\ matches.out[3].source_path # matches.out[1].source_path
    /\ Len(entries.out[1].candidate_indices) = 3

PatternRun == pc = "scanned"

\* C24: a pattern run produces the matches of the scan of its loaded
\* sources, whatever the explicit percentages, equal_prob and the result of
\* the probability computation are.
C24_MatchesWhateverProbabilities ==
    PatternRun =>
        /\ matches.tag = "ok"
        /\ \A sc \in MatchingCandidates :
              \E m \in 1..Len(matches.out) : matches.out[m] = MatchOf(sc)

\* ------------------------------------------------------------------------
\* The random source
\* ------------------------------------------------------------------------

Fixed == pc = "ready" /\ gen.mode = "HardCoded"

\* A call that took a value from the generator.
Drew(c) == c.op = "next_u64" \/ c.upper > 0

\* How many values the generator had yielded before call n.
DrawsBefore(n) == Cardinality({m \in 1..(n - 1) : Drew(drawn[m])})

\* A text that is one decimal number of a few digits, and the number.
SingleValue(t) ==
    /\ t # <<>> /\ Len(t) <= MaxHardLen
    /\ \A k \in 1..Len(t) : t[k] >= ZERO /\ t[k] <= NINE

RECURSIVE DecimalOf(_)
DecimalOf(t) ==
    IF t = <<>> THEN 0
    ELSE DecimalOf(SubSeq(t, 1, Len(t) - 1)) * 10 + (t[Len(t)] - ZERO)

\* C25: a source made from a list of values returns, on its k-th draw (from
\* 0), the value at position k mod n of the list, for every draw made; a text
\* holding one value gives the list of that value, returned by every draw.
C25_CyclesThroughList ==
    Fixed =>
        /\ gen.values # <<>>
        /\ \A n \in 1..Len(drawn) :
              drawn[n].op = "next_u64" =>
                 drawn[n].value = gen.values[(DrawsBefore(n) % Len(gen.values)) + 1]
        /\ SingleValue(hardRaw.raw) =>
              /\ gen.values = <<U64(DecimalOf(hardRaw.raw))>>
              /\ \A n \in 1..Len(drawn) :
                    drawn[n].op = "next_u64" =>
                       drawn[n].value = U64(DecimalOf(hardRaw.raw))

\* Three draws from a list of two different values: the third is the first
\* value again.
C25_Witness ==
    /\ Fixed
    /\ Len(gen.values) = 2 /\ gen.values[1] # gen.values[2]
    /\ Len(drawn) = 3
    /\ \A n \in 1..3 : drawn[n].op = "next_u64"
    /\ drawn[1].value = gen.values[1]
    /\ drawn[2].value = gen.values[2]
    /\ drawn[3].value = gen.values[1]

\* C26: next_index(upper) returns 0 when upper is 0, and otherwise the value
\* next_u64 yields modulo upper, which is below upper.
C26_ModuloUpper ==
    pc = "ready" =>
        \A n \in 1..Len(drawn) :
            drawn[n].op = "next_index" =>
               IF drawn[n].upper = 0 THEN drawn[n].value = 0
               ELSE /\ drawn[n].value = U64Mod(DrawnValue(gen, DrawsBefore(n)), drawn[n].upper)
                    /\ drawn[n].value < drawn[n].upper

\* ------------------------------------------------------------------------
\* Loaded sources
\* ------------------------------------------------------------------------

Loaded == entries.tag = "ok"

\* Where a path stands among the sources given.
GivenAt(path) == CHOOSE k \in 1..Len(discovered) : discovered[k].path = path

\* The candidates of the source given at position k, listed from its files.
CandidatesGiven(k) ==
    candidate_indices(open(Disk[discovered[k].path].text, Disk[discovered[k].path].dat,
                           usizeBits).db, filter).out

WithCandidates == {k \in 1..Len(discovered) : CandidatesGiven(k) # <<>>}

\* C27: load_sources returns the given sources that have a candidate under
\* the filter, each with its candidates and none without, in the order given,
\* and fails when there is none; and select_random_fortune called on them
\* draws a position below the chosen source's count and never indexes outside
\* its candidate list.
C27_NoEmptySource ==
    /\ (pc = "loaded" /\ Loaded) =>
          /\ \A s \in 1..Len(entries.out) : entries.out[s].candidate_indices # <<>>
          /\ {GivenAt(entries.out[s].path) : s \in 1..Len(entries.out)} = WithCandidates
          /\ \A s \in 1..Len(entries.out) :
                entries.out[s].candidate_indices
                   = CandidatesGiven(GivenAt(entries.out[s].path))
          /\ \A s, t \in 1..Len(entries.out) :
                s < t => GivenAt(entries.out[s].path) < GivenAt(entries.out[t].path)
    /\ pc = "loaded" => (entries.tag = "err" <=> WithCandidates = {})
    /\ (pc \in {"selected", "reselected"} /\ Loaded /\ sel.entries = entries.out) =>
          /\ sel.res.tag # "panic"
          /\ sel.res.tag = "ok" => PositionDrawn < Len(ChosenSource.candidate_indices)

\* Three sources given, the second without a candidate under the filter: the
\* first and the third are loaded, and a record of the third is selected.
C27_Witness ==
    /\ pc = "selected" /\ Loaded /\ sel.entries = entries.out
    /\ Len(discovered) = 3 /\ WithCandidates = {1, 3}
    /\ Len(entries.out) = 2
    /\ sel.res.tag = "ok" /\ sel.res.chosen_idx = 1

\* ------------------------------------------------------------------------
\* Sources of probability zero
\* ------------------------------------------------------------------------

BelowOne == FLt(sel.res.u, One)

\* C28: a call that accepts its probability list and draws a unit value below
\* 1 chooses a source whose probability is above 0.
C28_NeverZeroProbability ==
    (Returned /\ sel.res.chosen_idx # None /\ BelowOne) =>
        FGt(sel.probabilities[sel.res.chosen_idx + 1], FZero)

\* ------------------------------------------------------------------------
\* Values consumed by a selection
\* ------------------------------------------------------------------------

\* b modulo the candidate count of the chosen source, b the second value the
\* generator yields.
SecondModuloCount ==
    U64Mod(DrawnValue(sel.rng, 1), Len(ChosenSource.candidate_indices))

\* C29: a call that fails on a length mismatch or a total that is not
\* positive leaves the generator as it was; a call that succeeds has drawn
\* exactly two values, the first giving u and so the source, the second giving
\* the record position as its value modulo the chosen source's candidate count.
C29_TwoValues ==
    Returned =>
        IF Unusable
        THEN sel.res.tag = "err" /\ sel.res.rng = sel.rng
        ELSE /\ sel.res.tag = "ok"
             /\ sel.res.rng = [sel.rng EXCEPT !.index = @ + 2]
             /\ sel.res.u = UnitDrawn
             /\ sel.res.selection.record_index
                  = ChosenSource.candidate_indices[SecondModuloCount + 1]

\* ------------------------------------------------------------------------
\* Record lengths of a built index
\* ------------------------------------------------------------------------

\* The corpus opened with the index the build returned for it.
BuiltOpened ==
    /\ pc = "opened" /\ opened.tag = "ok"
    /\ built.tag = "ok" /\ opened.db.dat = built.dat

\* The byte lengths of the records as record_bytes returns them.
ReadLengths ==
    {Len(record_bytes(opened.db, i).bytes) : i \in 0..(record_count(opened.db) - 1)}

\* C30: in an index built from a corpus, shortlen is the least and longlen
\* the greatest byte length of the records record_bytes returns from that
\* corpus, whatever the reordering and allow_empty.
C30_LengthBounds ==
    BuiltOpened =>
        /\ \A i \in 0..(record_count(opened.db) - 1) :
              record_bytes(opened.db, i).tag = "ok"
        /\ built.dat.header.shortlen <= built.dat.header.longlen
        /\ \A len \in ReadLengths :
              built.dat.header.shortlen <= len /\ len <= built.dat.header.longlen
        /\ built.dat.header.shortlen \in ReadLengths
        /\ built.dat.header.longlen \in ReadLengths

\* The corpus "one", "two", "three" built with order_offsets: the offsets are
\* those of "one", "three", "two", the lengths run from 4 to 6.
C30_Witness ==
    /\ BuiltOpened
    /\ text = OneTwoThree /\ opts.order_offsets
    /\ built.dat.offsets = <<0, 12, 6>>
    /\ built.dat.header.shortlen = 4 /\ built.dat.header.longlen = 6
    /\ ReadLengths = {4, 6}
====
